---- MODULE Spec2Model ----
(***************************************************************************)
(* Grounding and self-correction pipeline of the hotel assistant:          *)
(* HallucinationManager, DataFusionValidator and the correction loop of    *)
(* LLMEngine.chat.                                                         *)
(*                                                                         *)
(* Strings are tuples of one-character strings, so that lower(), strip(),  *)
(* replace(), the `in` substring test and the regular expression [\d.]+    *)
(* are computed as Python computes them.  Numbers are kept in hundredths   *)
(* (150 is 15000, 4.5 is 450): the values of the model have at most two    *)
(* decimals, and the tolerances 1.0 and 0.1 are 100 and 10.                *)
(***************************************************************************)
EXTENDS Integers, Sequences, FiniteSets, TLC

VARIABLES
    mode,              \* which entry point this behaviour exercises
    pc,                \* position inside the entry point
    api_hotels,        \* api_data["top_hotels"]: the FactSet
    llm_hotels,        \* llm_claims["top_hotels"]: the ClaimSet
    response_text,     \* response_to_user of the generator output
    discrepancies,     \* the issue list the called checker returned
    summary,           \* the detection summary of comprehensive_check
    fusion,            \* the result of get_fusion_quality_score
    fusion_before,     \* the result of the call before this one
    messages,          \* chat: the message list sent to the generator
    tool_calls,        \* chat: the tool calls still to process
    full_api_data,     \* chat: the dict the tool outputs are merged into
    final_json_str,    \* chat: the output of the grounded generation call
    corrected_json,    \* chat: the output of the correction generation call
    provider,          \* search_hotels: what the request to the provider did
    environ,           \* os.environ: the two credential variables of the generator
    client,            \* LLMEngine: the api_key of self.client, None before construction
    checker_runs,      \* chat: the checkers called so far, each with the output it was given
    turns,             \* two calls of chat on one engine: the locals of each call
    caller_history,    \* two calls of chat on one engine: the list object the caller passes
    all_issues,        \* chat: the merged issue list
    generator_calls,   \* chat: the generator calls made so far, in order
    result             \* chat: what the turn returned

args == <<api_hotels, llm_hotels, response_text>>
checker == <<discrepancies, summary, fusion, fusion_before>>
chat == <<messages, tool_calls, full_api_data, final_json_str, all_issues,
          corrected_json, provider, environ, client, checker_runs,
          turns, caller_history,
          generator_calls, result>>
vars == <<mode, pc, args, checker, chat>>

----------------------------------------------------------------------------
(* Python values: None, int, float (in hundredths) and str.                *)

NoneVal == [t |-> "none", v |-> 0, s |-> <<>>]
IntVal(n) == [t |-> "int", v |-> n, s |-> <<>>]
FloatVal(h) == [t |-> "float", v |-> h, s |-> <<>>]
StrVal(chars) == [t |-> "str", v |-> 0, s |-> chars]

Hotel(n, p, r) == [name |-> n, price |-> p, rating |-> r]

\* bool(x) of a value: None, 0, 0.0 and "" are falsy
Truthy(x) ==
    CASE x.t = "none" -> FALSE
      [] x.t = "int" -> x.v # 0
      [] x.t = "float" -> x.v # 0
      [] OTHER -> x.s # <<>>

----------------------------------------------------------------------------
(* str methods                                                             *)

UpperChars == <<"A","B","C","D","E","F","G","H","I","J","K","L","M",
                "N","O","P","Q","R","S","T","U","V","W","X","Y","Z">>
LowerChars == <<"a","b","c","d","e","f","g","h","i","j","k","l","m",
                "n","o","p","q","r","s","t","u","v","w","x","y","z">>
DigitChars == <<"0","1","2","3","4","5","6","7","8","9">>

LowerChar(c) ==
    IF \E i \in 1..Len(UpperChars) : UpperChars[i] = c
    THEN LowerChars[CHOOSE i \in 1..Len(UpperChars) : UpperChars[i] = c]
    ELSE c

\* str.lower()
Lower(s) == [i \in 1..Len(s) |-> LowerChar(s[i])]

RECURSIVE LStrip(_)
LStrip(s) == IF s # <<>> /\ Head(s) = " " THEN LStrip(Tail(s)) ELSE s

RECURSIVE RStrip(_)
RStrip(s) ==
    IF s # <<>> /\ s[Len(s)] = " " THEN RStrip(SubSeq(s, 1, Len(s) - 1)) ELSE s

\* str.strip()
Strip(s) == RStrip(LStrip(s))

IsPrefix(p, s) == Len(p) <= Len(s) /\ SubSeq(s, 1, Len(p)) = p

\* p in s
Contains(s, p) ==
    \E i \in 0..(Len(s) - Len(p)) : \A k \in 1..Len(p) : s[i + k] = p[k]

\* s.replace(p, ""), p non-empty: leftmost non-overlapping occurrences
RECURSIVE RemoveAll(_, _)
RemoveAll(s, p) ==
    IF Len(s) < Len(p) THEN s
    ELSE IF IsPrefix(p, s) THEN RemoveAll(SubSeq(s, Len(p) + 1, Len(s)), p)
    ELSE <<Head(s)>> \o RemoveAll(Tail(s), p)

IsDigit(c) == \E i \in 1..10 : DigitChars[i] = c
DigitVal(c) == (CHOOSE i \in 1..10 : DigitChars[i] = c) - 1
IsNumChar(c) == IsDigit(c) \/ c = "."

RECURSIVE NatOf(_)
NatOf(ds) ==
    IF ds = <<>> THEN 0 ELSE NatOf(SubSeq(ds, 1, Len(ds) - 1)) * 10 + DigitVal(ds[Len(ds)])

RECURSIVE NatChars(_)
NatChars(n) ==
    IF n < 10 THEN <<DigitChars[n + 1]>>
    ELSE NatChars(n \div 10) \o <<DigitChars[(n % 10) + 1]>>

\* str(x): "5" for the int 5, "4.5" for the float 4.5, "4.0" for 4.0
Format(x) ==
    LET a == IF x.v < 0 THEN 0 - x.v ELSE x.v
        sign == IF x.v < 0 THEN <<"-">> ELSE <<>>
        frac == a % 100
    IN  CASE x.t = "str" -> x.s
          [] x.t = "int" -> sign \o NatChars(a)
          [] x.t = "float" ->
                sign \o NatChars(a \div 100) \o <<".">> \o
                (IF frac % 10 = 0 THEN NatChars(frac \div 10)
                 ELSE <<DigitChars[(frac \div 10) + 1], DigitChars[(frac % 10) + 1]>>)
          [] OTHER -> <<"N","o","n","e">>

\* float(text): optional sign, digits with at most one point and at least one
\* digit, surrounding blanks ignored; anything else is a ValueError (ok = FALSE).
\* The value is in hundredths.
ParseFloat(text) ==
    LET invalid == [ok |-> FALSE, v |-> 0]
        number(neg, ip, fp) ==
            IF Len(ip) + Len(fp) = 0 THEN invalid
            ELSE [ok |-> TRUE,
                  v |-> (IF neg THEN 0 - 1 ELSE 1) *
                        (NatOf(ip) * 100 +
                         (IF Len(fp) = 0 THEN 0
                          ELSE IF Len(fp) = 1 THEN DigitVal(fp[1]) * 10
                          ELSE DigitVal(fp[1]) * 10 + DigitVal(fp[2])))]
        split(neg, body, dot) ==
            number(neg, SubSeq(body, 1, dot - 1), SubSeq(body, dot + 1, Len(body)))
        points(neg, body, dots) ==
            IF Cardinality(dots) > 1 \/ \E i \in 1..Len(body) : ~IsNumChar(body[i])
            THEN invalid
            ELSE split(neg, body, IF dots = {} THEN Len(body) + 1 ELSE CHOOSE i \in dots : TRUE)
        unsigned(neg, body) == points(neg, body, {i \in 1..Len(body) : body[i] = "."})
        signed(t) ==
            unsigned(t # <<>> /\ Head(t) = "-",
                     IF t # <<>> /\ Head(t) \in {"-", "+"} THEN Tail(t) ELSE t)
    IN  signed(Strip(text))

\* float(x) of a value: TypeError on None, ValueError on a bad string
ToFloat(x) ==
    CASE x.t = "int" -> [ok |-> TRUE, v |-> x.v * 100]
      [] x.t = "float" -> [ok |-> TRUE, v |-> x.v]
      [] x.t = "str" -> ParseFloat(x.s)
      [] OTHER -> [ok |-> FALSE, v |-> 0]

\* re.search(r'[\d.]+', s): the first maximal run of digits and points
RegexNum(s) ==
    LET run(b) ==
            SubSeq(s, b, CHOOSE k \in b..Len(s) :
                            /\ \A j \in b..k : IsNumChar(s[j])
                            /\ (k = Len(s) \/ ~IsNumChar(s[k + 1])))
        first(starts) ==
            IF starts = {} THEN [found |-> FALSE, group |-> <<>>]
            ELSE [found |-> TRUE,
                  group |-> run(CHOOSE i \in starts : \A j \in starts : i <= j)]
    IN  first({i \in 1..Len(s) : IsNumChar(s[i])})

Abs(n) == IF n < 0 THEN 0 - n ELSE n

----------------------------------------------------------------------------
(* HallucinationManager.verify_grounding                                   *)

\* An issue is the message the code appends; the model keeps its kind and the
\* position of the claim it is about (0 for an issue about the whole set).
\* `about` tells the price issue of a checker from its rating issue.
IssueAbout(k, i, f) == [kind |-> k, idx |-> i, about |-> f]
Issue(k, i) == IssueAbout(k, i, "")

\* price_diff > 1.0, in hundredths
PriceTolerance == 100
\* rating_diff > 0.1, in hundredths
RatingTolerance == 10
\* len(name_key) > 5
FuzzyMinLen == 5

\* the dict api_hotel_map as the sequence of its (key, value) items in insertion
\* order; a key set again keeps its place and takes the new value
RECURSIVE DictSet(_, _, _)
DictSet(items, k, val) ==
    IF items = <<>> THEN <<[key |-> k, val |-> val]>>
    ELSE IF Head(items).key = k THEN <<[key |-> k, val |-> val]>> \o Tail(items)
    ELSE <<Head(items)>> \o DictSet(Tail(items), k, val)

DictHas(items, k) == \E i \in 1..Len(items) : items[i].key = k
DictGet(items, k) == items[CHOOSE i \in 1..Len(items) : items[i].key = k].val

\* lines 58-62: names lowered and stripped, blank names left out
RECURSIVE ApiHotelMap(_)
ApiHotelMap(hotels) ==
    IF hotels = <<>> THEN <<>>
    ELSE LET put(rest, name_key, ah) ==
                 IF name_key # <<>> THEN DictSet(rest, name_key, ah) ELSE rest
         IN  put(ApiHotelMap(SubSeq(hotels, 1, Len(hotels) - 1)),
                 Strip(Lower(hotels[Len(hotels)].name)), hotels[Len(hotels)])

\* the test of line 84 without its length guard
FuzzyTest_NoLengthGuard(name_key, api_name) ==
    Contains(api_name, name_key) \/ Contains(name_key, api_name)

\* line 84: the test applied to one api name
FuzzyTest(name_key, api_name) ==
    /\ Contains(api_name, name_key) \/ Contains(name_key, api_name)
    /\ Len(name_key) > FuzzyMinLen

\* lines 76-87: the exact lookup, then the first api name that passes the test
FindMatch(api_hotel_map, name_key) ==
    IF DictHas(api_hotel_map, name_key)
    THEN [found |-> TRUE, hotel |-> DictGet(api_hotel_map, name_key)]
    ELSE LET first(hits) ==
                 IF hits = {} THEN [found |-> FALSE, hotel |-> Hotel(<<>>, NoneVal, NoneVal)]
                 ELSE [found |-> TRUE,
                       hotel |-> api_hotel_map[CHOOSE i \in hits : \A j \in hits : i <= j].val]
         IN  first({i \in 1..Len(api_hotel_map) : FuzzyTest(name_key, api_hotel_map[i].key)})

\* lines 101-121 with `>=` for `>` at line 110
PriceCheck_GreaterEqual(lh, match, i) ==
    LET compare(l, a) ==
            IF l.ok /\ a.ok
            THEN (IF Abs(l.v - a.v) >= 100
                  THEN <<Issue("PriceContradiction", i)>> ELSE <<>>)
            ELSE <<Issue("InvalidFormat", i)>>
    IN  IF lh.price.t # "none" /\ match.price.t # "none"
        THEN compare(ToFloat(lh.price), ToFloat(match.price))
        ELSE <<>>

\* lines 101-121
PriceCheck(lh, match, i) ==
    LET compare(l, a) ==
            IF l.ok /\ a.ok
            THEN (IF Abs(l.v - a.v) > PriceTolerance
                  THEN <<Issue("PriceContradiction", i)>> ELSE <<>>)
            ELSE <<Issue("InvalidFormat", i)>>
    IN  IF lh.price.t # "none" /\ match.price.t # "none"
        THEN compare(ToFloat(lh.price), ToFloat(match.price))
        ELSE <<>>

\* lines 133-141 (and 271-274, 319-322): str(), the two replace() calls, strip(),
\* the regular expression and float(); ok = FALSE when no number is found or
\* float() raises
RatingNumber(rating) ==
    LET number(rating_num) ==
            IF rating_num.found THEN ParseFloat(rating_num.group)
            ELSE [ok |-> FALSE, v |-> 0]
    IN  number(RegexNum(Strip(RemoveAll(RemoveAll(Format(rating), <<"s","t","a","r">>), <<"s","t","a","r","s">>))))

\* line 130: `if llm_rating and api_rating`
RatingPresent(llm_rating, api_rating) == Truthy(llm_rating) /\ Truthy(api_rating)

\* lines 127-153 comparing the two values as given, without normalization
RatingCheck_RawCompare(lh, match, i) ==
    IF RatingPresent(lh.rating, match.rating) /\ lh.rating # match.rating
    THEN <<Issue("RatingContradiction", i)>> ELSE <<>>

\* lines 127-153
RatingCheck(lh, match, i) ==
    LET compare(l, a) ==
            IF l.ok /\ a.ok /\ Abs(l.v - a.v) > RatingTolerance
            THEN <<Issue("RatingContradiction", i)>> ELSE <<>>
    IN  IF RatingPresent(lh.rating, match.rating)
        THEN compare(RatingNumber(lh.rating), RatingNumber(match.rating))
        ELSE <<>>

\* lines 65-154: the body of the loop for the claim at position i
ClaimCheck(api_hotel_map, lh, i) ==
    LET compare(m) ==
            IF ~m.found THEN <<Issue("HallucinatedEntity", i)>>
            ELSE PriceCheck(lh, m.hotel, i) \o RatingCheck(lh, m.hotel, i)
        lookup(llm_name) ==
            IF llm_name = <<>> THEN <<Issue("MissingName", i)>>
            ELSE compare(FindMatch(api_hotel_map, Lower(llm_name)))
    IN  lookup(Strip(lh.name))

RECURSIVE ClaimLoop(_, _, _)
ClaimLoop(api_hotel_map, hotels, n) ==
    IF n = 0 THEN <<>>
    ELSE ClaimLoop(api_hotel_map, hotels, n - 1) \o ClaimCheck(api_hotel_map, hotels[n], n)

\* lines 50-54 with `>=` for `>` at line 50
CountCheck_GreaterEqual(api, llm) ==
    IF llm # <<>> /\ Len(llm) >= Len(api) THEN <<Issue("CountMismatch", 0)>> ELSE <<>>

\* lines 50-54
CountCheck(api, llm) ==
    IF llm # <<>> /\ Len(llm) > Len(api) THEN <<Issue("CountMismatch", 0)>> ELSE <<>>

\* lines 41-47 without the append of lines 43-46
EmptyApiCheck_Silent(llm) == <<>>

\* lines 41-47
EmptyApiCheck(llm) ==
    IF llm # <<>> THEN <<Issue("HallucinatedEntity", 0)>> ELSE <<>>

\* the count issue appended after the loop of lines 64-154
Discrepancies_CountLast(count_issues, claim_issues) == claim_issues \o count_issues

\* lines 50-54 append to discrepancies before the loop of lines 64-154 does
Discrepancies(count_issues, claim_issues) == count_issues \o claim_issues

\* verify_grounding without the `return` of line 47
verify_grounding_NoEarlyReturn(api, llm) ==
    (IF api = <<>> THEN EmptyApiCheck(llm) ELSE <<>>)
    \o Discrepancies(CountCheck(api, llm), ClaimLoop(ApiHotelMap(api), llm, Len(llm)))

verify_grounding(api, llm) ==
    IF api = <<>> THEN EmptyApiCheck(llm)
    ELSE Discrepancies(CountCheck(api, llm), ClaimLoop(ApiHotelMap(api), llm, Len(llm)))

----------------------------------------------------------------------------
(* HallucinationManager.check_consistency                                  *)

\* `if h.get("name")`: a non-empty string
HasName(h) == h.name # <<>>

\* lines 237-243 with h["name"] for h["name"].lower()
DuplicateCheck_CaseSensitive(hotels) ==
    LET named == {j \in 1..Len(hotels) : HasName(hotels[j])}
        duplicates == {i \in named : \E j \in named : j # i /\ hotels[j].name = hotels[i].name}
    IN  IF duplicates # {} THEN <<Issue("DuplicateEntity", 0)>> ELSE <<>>

\* lines 237-243: hotel_names holds the lowered non-empty names; one message
\* for the set of names that occur more than once
DuplicateCheck(hotels) ==
    LET named == {j \in 1..Len(hotels) : HasName(hotels[j])}
        count(name) == Cardinality({j \in named : Lower(hotels[j].name) = name})
        duplicates == {i \in named : count(Lower(hotels[i].name)) > 1}
    IN  IF duplicates # {} THEN <<Issue("DuplicateEntity", 0)>> ELSE <<>>

\* lines 246-250
RECURSIVE RequiredFieldLoop(_, _)
RequiredFieldLoop(hotels, n) ==
    IF n = 0 THEN <<>>
    ELSE RequiredFieldLoop(hotels, n - 1)
         \o (IF ~HasName(hotels[n]) THEN <<Issue("MissingName", n)>> ELSE <<>>)

\* lines 258-266
NegativePriceCheck(hotel, i) ==
    LET negative(p) == p.ok /\ p.v < 0
    IN  IF hotel.price.t # "none" /\ negative(ToFloat(hotel.price))
        THEN <<IssueAbout("InvalidRange", i, "price")>> ELSE <<>>

\* lines 269-281
RatingRangeCheck(hotel, i) ==
    LET outside(r) == r.ok /\ (r.v < 0 \/ r.v > 500)
    IN  IF Truthy(hotel.rating) /\ outside(RatingNumber(hotel.rating))
        THEN <<IssueAbout("InvalidRange", i, "rating")>> ELSE <<>>

\* lines 253-281
RECURSIVE LogicLoop(_, _)
LogicLoop(hotels, n) ==
    IF n = 0 THEN <<>>
    ELSE LogicLoop(hotels, n - 1)
         \o NegativePriceCheck(hotels[n], n) \o RatingRangeCheck(hotels[n], n)

check_consistency(hotels) ==
    DuplicateCheck(hotels)
    \o RequiredFieldLoop(hotels, Len(hotels))
    \o LogicLoop(hotels, Len(hotels))

----------------------------------------------------------------------------
(* HallucinationManager.check_plausibility                                 *)

\* lines 311-315: the prices float() accepts, in claim order
RECURSIVE ParsedPrices(_)
ParsedPrices(hotels) ==
    IF hotels = <<>> THEN <<>>
    ELSE LET add(rest, h, p) ==
                 IF h.price.t # "none" /\ p.ok THEN Append(rest, p.v) ELSE rest
         IN  add(ParsedPrices(SubSeq(hotels, 1, Len(hotels) - 1)),
                 hotels[Len(hotels)], ToFloat(hotels[Len(hotels)].price))

\* lines 317-324
RECURSIVE ParsedRatings(_)
ParsedRatings(hotels) ==
    IF hotels = <<>> THEN <<>>
    ELSE LET add(rest, h, r) ==
                 IF Truthy(h.rating) /\ r.ok THEN Append(rest, r.v) ELSE rest
         IN  add(ParsedRatings(SubSeq(hotels, 1, Len(hotels) - 1)),
                 hotels[Len(hotels)], RatingNumber(hotels[Len(hotels)].rating))

Range(s) == {s[i] : i \in 1..Len(s)}

\* min_price < 10 and max_price > 10000, in hundredths
MinPlausiblePrice == 1000
MaxPlausiblePrice == 1000000
\* len(prices) > 2, len(ratings) > 2
UniformityMinCount == 2

\* lines 327-348
PricePlausibility(prices) ==
    IF prices # <<>>
    THEN (IF \E p \in Range(prices) : p < MinPlausiblePrice
          THEN <<IssueAbout("ImplausibleValue", 0, "low")>> ELSE <<>>)
      \o (IF \E p \in Range(prices) : p > MaxPlausiblePrice
          THEN <<IssueAbout("ImplausibleValue", 0, "high")>> ELSE <<>>)
      \o (IF Cardinality(Range(prices)) = 1 /\ Len(prices) > UniformityMinCount
          THEN <<IssueAbout("SuspiciousUniformity", 0, "price")>> ELSE <<>>)
    ELSE <<>>

\* lines 351-356
RatingPlausibility(ratings) ==
    IF ratings # <<>> /\ (\A r \in Range(ratings) : r = ratings[1])
                      /\ Len(ratings) > UniformityMinCount
    THEN <<IssueAbout("SuspiciousUniformity", 0, "rating")>> ELSE <<>>

check_plausibility(hotels) ==
    IF hotels = <<>> THEN <<>>
    ELSE PricePlausibility(ParsedPrices(hotels)) \o RatingPlausibility(ParsedRatings(hotels))

----------------------------------------------------------------------------
(* HallucinationManager.detect_misinformation_patterns                     *)

overconfident_patterns ==
    <<<<"d","e","f","i","n","i","t","e","l","y">>, <<"c","e","r","t","a","i","n","l","y">>, <<"g","u","a","r","a","n","t","e","e","d">>, <<"a","l","w","a","y","s">>, <<"n","e","v","e","r"," ","f","a","i","l","s">>>>
vague_data_patterns ==
    <<<<"t","h","e"," ","b","e","s","t"," ","h","o","t","e","l">>, <<"t","o","p"," ","r","a","t","e","d">>, <<"m","o","s","t"," ","p","o","p","u","l","a","r">>, <<"h","i","g","h","l","y"," ","r","e","c","o","m","m","e","n","d","e","d">>>>

\* re.search(pattern, text, re.IGNORECASE) for some pattern of the list; the
\* patterns are plain lower-case text
AnyPattern(patterns, text) ==
    LET search(low) == \E i \in 1..Len(patterns) : Contains(low, patterns[i])
    IN  search(Lower(text))

\* re.findall(r'\$\d+', text) is non-empty
PriceMentions(text) ==
    \E i \in 1..(Len(text) - 1) : text[i] = "$" /\ IsDigit(text[i + 1])

\* lines 172-217 without the `break` of lines 189 and 205: an issue for every
\* pattern found
detect_misinformation_patterns_NoBreak(text, api) ==
    LET each(patterns, kind) ==
            [i \in 1..Cardinality({k \in 1..Len(patterns) :
                                      Contains(Lower(text), patterns[k])}) |-> Issue(kind, 0)]
    IN  IF api = <<>>
        THEN each(overconfident_patterns, "UnsupportedOverconfidence")
          \o each(vague_data_patterns, "UnsupportedSuperlative")
          \o (IF PriceMentions(text)
              THEN <<Issue("UnsupportedNumeric", 0)>> ELSE <<>>)
        ELSE <<>>

\* lines 172-217
detect_misinformation_patterns(text, api) ==
    IF api = <<>>
    THEN (IF AnyPattern(overconfident_patterns, text)
          THEN <<Issue("UnsupportedOverconfidence", 0)>> ELSE <<>>)
      \o (IF AnyPattern(vague_data_patterns, text)
          THEN <<Issue("UnsupportedSuperlative", 0)>> ELSE <<>>)
      \o (IF PriceMentions(text)
          THEN <<Issue("UnsupportedNumeric", 0)>> ELSE <<>>)
    ELSE <<>>

----------------------------------------------------------------------------
(* HallucinationManager.comprehensive_check                                *)

\* lines 385-389: the pattern detector runs only on a non-empty text
MisinformationIssues(api, text) ==
    IF text # <<>> THEN detect_misinformation_patterns(text, api) ELSE <<>>

\* line 398 with all_issues for grounding_issues
HasCriticalIssues_AnyIssue(grounding_issues, merged) == Len(merged) > 0

\* line 398
HasCriticalIssues(grounding_issues, merged) == Len(grounding_issues) > 0

\* lines 369-400: the merged list and the summary
comprehensive_check(api, llm, text) ==
    LET report(grounding_issues, consistency_issues, plausibility_concerns,
               misinformation_issues, merged) ==
            [all_issues |-> merged,
             summary |->
                [total_issues |-> Len(merged),
                 grounding_issues |-> Len(grounding_issues),
                 consistency_issues |-> Len(consistency_issues),
                 plausibility_concerns |-> Len(plausibility_concerns),
                 misinformation_patterns |-> Len(misinformation_issues),
                 has_critical_issues |-> HasCriticalIssues(grounding_issues, merged),
                 confidence |-> IF Len(merged) = 0 THEN "HIGH" ELSE "LOW"]]
        merge(g, c, p, m) == report(g, c, p, m, g \o c \o p \o m)
    IN  merge(verify_grounding(api, llm), check_consistency(llm),
              check_plausibility(llm), MisinformationIssues(api, text))

\* lines 371-389: the checkers comprehensive_check calls, in order; the pattern
\* detector only on a non-empty text
ComprehensiveRuns(text) ==
    <<"verify_grounding", "check_consistency", "check_plausibility">>
    \o (IF text # <<>> THEN <<"detect_misinformation_patterns">> ELSE <<>>)

NoSummary ==
    [total_issues |-> 0, grounding_issues |-> 0, consistency_issues |-> 0,
     plausibility_concerns |-> 0, misinformation_patterns |-> 0,
     has_critical_issues |-> FALSE, confidence |-> "HIGH"]

----------------------------------------------------------------------------
(* DataFusionValidator                                                     *)

value_indicators ==
    <<<<"r","e","c","o","m","m","e","n","d">>, <<"s","u","g","g","e","s","t">>, <<"c","o","m","p","a","r","e">>, <<"b","e","t","t","e","r">>, <<"b","e","s","t">>, <<"v","a","l","u","e">>,
      <<"e","x","c","e","l","l","e","n","t">>, <<"g","r","e","a","t">>, <<"g","o","o","d">>, <<"o","p","t","i","o","n">>, <<"c","h","o","i","c","e">>, <<"c","o","n","s","i","d","e","r">>>>
factual_indicators == <<<<"$">>, <<"s","t","a","r">>, <<"r","a","t","i","n","g">>, <<"n","i","g","h","t">>, <<"h","o","t","e","l">>>>
reasoning_indicators ==
    <<<<"b","e","c","a","u","s","e">>, <<"s","i","n","c","e">>, <<"i","f">>, <<"r","e","c","o","m","m","e","n","d">>, <<"s","u","g","g","e","s","t">>, <<"c","o","n","s","i","d","e","r">>,
      <<"b","e","t","t","e","r">>, <<"b","e","s","t">>, <<"v","a","l","u","e">>, <<"e","x","c","e","l","l","e","n","t">>, <<"g","r","e","a","t">>>>
synthesis_quality_indicators ==
    <<<<<<"c","o","m","p","a","r","e">>, <<"v","e","r","s","u","s">>, <<"v","s">>, <<"b","e","t","t","e","r">>, <<"b","e","s","t">>, <<"d","i","f","f","e","r","e","n","c","e">>>>,
      <<<<"r","e","c","o","m","m","e","n","d">>, <<"s","u","g","g","e","s","t">>, <<"c","o","n","s","i","d","e","r">>, <<"p","r","e","f","e","r">>, <<"c","h","o","o","s","e">>>>,
      <<<<"b","e","c","a","u","s","e">>, <<"s","i","n","c","e">>, <<"f","o","r">>, <<"i","f"," ","y","o","u">>, <<"d","e","p","e","n","d","i","n","g"," ","o","n">>>>,
      <<<<"v","a","l","u","e">>, <<"w","o","r","t","h">>, <<"e","x","c","e","l","l","e","n","t">>, <<"g","r","e","a","t">>, <<"g","o","o","d">>, <<"a","f","f","o","r","d","a","b","l","e">>>>>>

\* any(indicator in response_text.lower() for indicator in indicators)
AnyIndicator(indicators, text) ==
    LET found(low) == \E i \in 1..Len(indicators) : Contains(low, indicators[i])
    IN  found(Lower(text))

\* line 32
UsageCheck(api, llm) ==
    IF api # <<>> /\ llm = <<>>
    THEN [valid |-> FALSE, issues |-> <<Issue("FusionIgnoredData", 0)>>]
    ELSE [valid |-> TRUE, issues |-> <<>>]

LowerNames(hotels) == {Lower(hotels[i].name) : i \in 1..Len(hotels)}

\* lines 56-60
MentionsApiHotels(api, text) ==
    LET mentioned(low) ==
            \E name \in LowerNames(api) : name # <<>> /\ Contains(low, Lower(name))
    IN  mentioned(Lower(text))

\* lines 40-83, entered with the validity so far
SynthesisCheck(api, llm, text, valid0) ==
    LET outcome(names, silent, plain, v2) ==
            [valid |-> v2,
             issues |->
                (IF names THEN <<Issue("FusionNameMismatch", 0)>> ELSE <<>>)
             \o (IF silent THEN <<Issue("FusionNoMention", 0)>> ELSE <<>>)
             \o (IF plain THEN <<Issue("FusionNoSynthesis", 0)>> ELSE <<>>)
             \o (IF plain /\ v2 THEN <<Issue("FusionWarning", 0)>> ELSE <<>>)]
        checks(names, silent, plain) ==
            outcome(names, silent, plain, valid0 /\ ~names /\ ~silent)
    IN  IF api # <<>> /\ llm # <<>>
        THEN checks(LowerNames(api) \cap LowerNames(llm) = {},
                    text # <<>> /\ ~MentionsApiHotels(api, text),
                    text # <<>> /\ ~AnyIndicator(value_indicators, text) /\ Len(api) > 1)
        ELSE [valid |-> valid0, issues |-> <<>>]

\* line 88: {name.lower(): h for h in api_hotels if h.get("name")}
RECURSIVE FusionHotelMap(_)
FusionHotelMap(hotels) ==
    IF hotels = <<>> THEN <<>>
    ELSE LET put(rest, ah) ==
                 IF ah.name # <<>> THEN DictSet(rest, Lower(ah.name), ah) ELSE rest
         IN  put(FusionHotelMap(SubSeq(hotels, 1, Len(hotels) - 1)), hotels[Len(hotels)])

\* lines 91-108 for the claim at position i
PricePreserved(api_hotel_map, llm_hotel) ==
    LET differ(l, a) == l.ok /\ a.ok /\ Abs(l.v - a.v) > PriceTolerance
        same(api_hotel) ==
            ~(/\ llm_hotel.price.t # "none"
              /\ api_hotel.price.t # "none"
              /\ differ(ToFloat(llm_hotel.price), ToFloat(api_hotel.price)))
        lookup(llm_name) ==
            IF DictHas(api_hotel_map, llm_name)
            THEN same(DictGet(api_hotel_map, llm_name))
            ELSE TRUE
    IN  lookup(Lower(llm_hotel.name))

\* lines 86-108
RECURSIVE AccuracyLoop(_, _, _)
AccuracyLoop(api_hotel_map, llm, n) ==
    IF n = 0 THEN <<>>
    ELSE AccuracyLoop(api_hotel_map, llm, n - 1)
         \o (IF PricePreserved(api_hotel_map, llm[n]) THEN <<>>
             ELSE <<Issue("FusionPriceModified", n)>>)

AccuracyCheck(api, llm) ==
    IF api # <<>> /\ llm # <<>> THEN AccuracyLoop(FusionHotelMap(api), llm, Len(llm))
    ELSE <<>>

\* lines 111-138 with the missing facts taken as a warning (no line 131)
BlendingCheck_FactsWarning(api, text) ==
    LET outcome(has_facts, has_reasoning) ==
            [valid |-> TRUE,
             issues |->
                (IF ~has_facts THEN <<Issue("FusionNoFacts", 0)>> ELSE <<>>)
             \o (IF ~has_reasoning /\ Len(api) > 1
                 THEN <<Issue("FusionNoReasoning", 0)>> ELSE <<>>)]
    IN  IF api # <<>> /\ text # <<>>
        THEN outcome(AnyIndicator(factual_indicators, text),
                     AnyIndicator(reasoning_indicators, text))
        ELSE [valid |-> TRUE, issues |-> <<>>]

\* lines 111-138
BlendingCheck(api, text) ==
    LET outcome(has_facts, has_reasoning) ==
            [valid |-> has_facts,
             issues |->
                (IF ~has_facts THEN <<Issue("FusionNoFacts", 0)>> ELSE <<>>)
             \o (IF ~has_reasoning /\ Len(api) > 1
                 THEN <<Issue("FusionNoReasoning", 0)>> ELSE <<>>)]
    IN  IF api # <<>> /\ text # <<>>
        THEN outcome(AnyIndicator(factual_indicators, text),
                     AnyIndicator(reasoning_indicators, text))
        ELSE [valid |-> TRUE, issues |-> <<>>]

\* lines 22-140: (is_valid, issues)
validate_fusion_quality(api, llm, text) ==
    LET combine(u, s, a, b) ==
            [is_valid |-> s.valid /\ a = <<>> /\ b.valid,
             issues |-> u.issues \o s.issues \o a \o b.issues]
        after(u) ==
            combine(u, SynthesisCheck(api, llm, text, u.valid),
                    AccuracyCheck(api, llm), BlendingCheck(api, text))
    IN  after(UsageCheck(api, llm))

\* lines 150-174: the number of indicator categories found in the text
FoundIndicators(text) ==
    Cardinality({c \in 1..Len(synthesis_quality_indicators) :
                    AnyIndicator(synthesis_quality_indicators[c], text)})

validate_meaningful_synthesis(api, text) ==
    LET grade(found) ==
            IF found >= 2 THEN [is_meaningful |-> TRUE, synthesis_quality |-> "meaningful"]
            ELSE IF found = 1 THEN [is_meaningful |-> TRUE, synthesis_quality |-> "basic"]
            ELSE [is_meaningful |-> FALSE, synthesis_quality |-> "data listing"]
    IN  IF api = <<>>
        THEN [is_meaningful |-> TRUE, synthesis_quality |-> "none to synthesize"]
        ELSE grade(FoundIndicators(text))

InvalidPenalty == 30
NotMeaningfulPenalty == 20
IssuePenalty == 5
ExcellentScore == 90
GoodScore == 70

\* lines 190-195
RawScore(is_valid, is_meaningful, n) ==
    100 - (IF is_valid THEN 0 ELSE InvalidPenalty)
        - (IF is_meaningful THEN 0 ELSE NotMeaningfulPenalty)
        - n * IssuePenalty

\* lines 190-196 without the max(0, score) of line 196
FusionScore_NoFloor(is_valid, is_meaningful, n) == RawScore(is_valid, is_meaningful, n)

\* lines 190-196
FusionScore(is_valid, is_meaningful, n) ==
    IF RawScore(is_valid, is_meaningful, n) < 0 THEN 0
    ELSE RawScore(is_valid, is_meaningful, n)

\* lines 184-205
get_fusion_quality_score(api, llm, text) ==
    LET report(q, m, score) ==
            [score |-> score,
             is_valid |-> q.is_valid,
             is_meaningful |-> m.is_meaningful,
             synthesis_quality |-> m.synthesis_quality,
             issues |-> q.issues,
             grade |-> IF score >= ExcellentScore THEN "Excellent"
                       ELSE IF score >= GoodScore THEN "Good" ELSE "Needs Improvement"]
        rate(q, m) == report(q, m, FusionScore(q.is_valid, m.is_meaningful, Len(q.issues)))
    IN  rate(validate_fusion_quality(api, llm, text),
             validate_meaningful_synthesis(api, text))

NoFusion ==
    [score |-> 100, is_valid |-> TRUE, is_meaningful |-> TRUE,
     synthesis_quality |-> "not called", issues |-> <<>>, grade |-> "Excellent"]

----------------------------------------------------------------------------
(* LLMEngine.chat: one turn                                                *)

\* a generator output string: a JSON object with its claims and its answer
\* text, or text json.loads rejects
Output(k, hotels, text) == [kind |-> k, top_hotels |-> hotels, response_to_user |-> text]
NoOutput == Output("none", <<>>, <<>>)

Msg(r, t, p) == [role |-> r, tag |-> t, payload |-> p]

\* history[-10:]
HistoryLimit == 10
LastOf(s, n) == IF Len(s) <= n THEN s ELSE SubSeq(s, Len(s) - n + 1, Len(s))

\* line 198
InitialMessages(history) ==
    <<Msg("system", "system_prompt", <<>>)>> \o LastOf(history, HistoryLimit)
    \o <<Msg("user", "user_input", <<>>)>>

\* the value of full_api_data: `has` is the set of its keys
EmptyDict == [has |-> {}, top_hotels |-> <<>>]

\* api_data.get("top_hotels", [])
TopHotels(d) == IF "top_hotels" \in d.has THEN d.top_hotels ELSE <<>>

\* api_data["hotels"][:5]
TopHotelsLimit == 5
FirstOf(s, n) == IF Len(s) <= n THEN s ELSE SubSeq(s, 1, n)

\* lines 259-268 with the hotels of a result added to those already there
UpdateWithHotels_Extend(d, hotels) ==
    [has |-> d.has \cup {"top_hotels", "city"},
     top_hotels |-> d.top_hotels \o FirstOf(hotels, TopHotelsLimit)]

\* lines 259-268: a result with "hotels" becomes {"top_hotels", "city"} and is
\* merged into full_api_data
UpdateWithHotels(d, hotels) ==
    [has |-> d.has \cup {"top_hotels", "city"}, top_hotels |-> FirstOf(hotels, TopHotelsLimit)]

\* lines 257-268: {"error": "Tool not found"} is merged
UpdateWithError(d) == [has |-> d.has \cup {"error"}, top_hotels |-> d.top_hotels]

\* what the request of search_hotels to the provider did: the key is missing
\* (no request), the request timed out, got an HTTP error status, raised another
\* exception, gave no hotel with a price, or gave hotels
Provider(k, hotels) == [kind |-> k, hotels |-> hotels]
NoProvider == Provider("none", <<>>)

\* os.environ restricted to the variables LLMEngine.__init__ reads; None is an
\* unset variable
Environ(a, b) == [OPEN_AI_API_KEY |-> a, OPENAI_API_KEY |-> b]
NoEnviron == Environ(NoneVal, NoneVal)

\* LLMEngine.__init__ lines 16-18: x or y, then .strip() of a truthy value
ApiKey_NoStrip(env) ==
    IF Truthy(env.OPEN_AI_API_KEY) THEN env.OPEN_AI_API_KEY ELSE env.OPENAI_API_KEY

ApiKey(env) ==
    LET strip(api_key) == IF Truthy(api_key) THEN StrVal(Strip(api_key.s)) ELSE api_key
    IN  strip(IF Truthy(env.OPEN_AI_API_KEY) THEN env.OPEN_AI_API_KEY
              ELSE env.OPENAI_API_KEY)

\* LLMEngine.__init__ lines 20-24: ValueError when the key is None or empty;
\* lines 26-28 otherwise
LLMEngine_init(env) ==
    IF Truthy(ApiKey(env)) THEN [raised |-> FALSE, api_key |-> ApiKey(env)]
    ELSE [raised |-> TRUE, api_key |-> NoneVal]

\* ord(c) of the characters of the model's city names
Ord(c) ==
    IF \E i \in 1..26 : UpperChars[i] = c
    THEN 64 + (CHOOSE i \in 1..26 : UpperChars[i] = c)
    ELSE IF \E i \in 1..26 : LowerChars[i] = c
    THEN 96 + (CHOOSE i \in 1..26 : LowerChars[i] = c)
    ELSE 32

RECURSIVE OrdSum(_)
OrdSum(s) == IF s = <<>> THEN 0 ELSE Ord(Head(s)) + OrdSum(Tail(s))

\* APIService._get_mock_hotels
MockHotels(city) ==
    LET price_base == 150 + (OrdSum(city) % 20) * 10
    IN  <<Hotel(<<"T","h","e"," ">> \o city \o <<" ","G","r","a","n","d"," ","R","o","y","a","l","e">>, IntVal(price_base), StrVal(<<"4",".","5">>)),
          Hotel(city \o <<" ","B","u","s","i","n","e","s","s"," ","B","o","u","t","i","q","u","e">>, IntVal(price_base - 70), StrVal(<<"4",".","2">>)),
          Hotel(city \o <<" ","C","o","m","f","o","r","t"," ","I","n","n">>, IntVal(price_base - 100), StrVal(<<"4",".","0">>))>>

\* lines 372-373 and 367-368 raising for returning the text
PassThrough_Raise(raw) == [kind |-> "raised", value |-> NoOutput]

\* lines 372-373 and 367-368: `except json.JSONDecodeError: return` the raw text
PassThrough(raw) == [kind |-> "returned", value |-> raw]

\* lines 361-368 returning the checked output when issues remain
CorrectionResult_KeepOriginal(final, corrected, corrected_issues) ==
    IF corrected_issues # <<>> THEN [kind |-> "returned", value |-> final]
    ELSE [kind |-> "returned", value |-> corrected]

\* lines 361-366: corrected_json is returned whatever corrected_issues holds
CorrectionResult(final, corrected, corrected_issues) ==
    [kind |-> "returned", value |-> corrected]

\* a checker call and the generator output it was given
Run(name, output) == [checker |-> name, output |-> output]
RunsOn(names, output) == [i \in 1..Len(names) |-> Run(names[i], output)]

\* lines 289-301: comprehensive_check, validate_fusion_quality and
\* get_fusion_quality_score on the output of the grounded call
FirstCheckRuns(text) ==
    RunsOn(ComprehensiveRuns(text) \o <<"validate_fusion_quality", "get_fusion_quality_score">>,
           "final_json_str")

\* lines 353-358 with verify_grounding alone for comprehensive_check
Recheck_GroundingOnly(api, llm, text) ==
    [issues |-> verify_grounding(api, llm),
     runs |-> RunsOn(<<"verify_grounding">>, "corrected_json")]

\* lines 353-358: comprehensive_check on the output of the correction call
Recheck(api, llm, text) ==
    [issues |-> comprehensive_check(api, llm, text).all_issues,
     runs |-> RunsOn(ComprehensiveRuns(text), "corrected_json")]

\* lines 319 and 335
NeedsCorrection_AnyIssue(issues, detection_summary) == issues # <<>>

NeedsCorrection(issues, detection_summary) ==
    issues # <<>> /\ detection_summary.has_critical_issues

\* line 339: all_issues[:5]
DirectiveLimit == 5

----------------------------------------------------------------------------
(* Inputs of the checkers                                                  *)

MaxFacts == 2
MaxClaims == 2
MaxRepeat == 7

ClaimNames ==
    {<<"G","r","a","n","d"," ","I","n","n">>, <<"G","R","A","N","D"," ","I","N","N"," ">>, <<"T","h","e"," ","G","r","a","n","d"," ","I","n","n">>, <<"G","r","a","n","d">>, <<"F","a","k","e"," ","I","n","n">>, <<>>}
ClaimPrices ==
    {NoneVal, IntVal(150), IntVal(151), FloatVal(15101), StrVal(<<"a","b","c">>)}
ClaimRatings ==
    {NoneVal, IntVal(0), FloatVal(450), StrVal(<<"4",".","5"," ","s","t","a","r","s">>), FloatVal(460),
     FloatVal(461), IntVal(5), StrVal(<<"N","/","A">>), StrVal(<<"0">>)}
ClaimRecords ==
    {Hotel(n, p, r) : n \in ClaimNames, p \in ClaimPrices, r \in ClaimRatings}

FactNames == {<<"G","r","a","n","d"," ","I","n","n">>, <<"S","e","a"," ","V","i","e","w">>, <<>>}
FactPrices == {NoneVal, IntVal(150), FloatVal(15050)}
FactRatings ==
    {NoneVal, FloatVal(450), StrVal(<<"4",".","5"," ","s","t","a","r","s">>), IntVal(0), StrVal(<<"N","/","A">>)}
FactRecords ==
    {Hotel(n, p, r) : n \in FactNames, p \in FactPrices, r \in FactRatings}

\* records of the sets with several entries
FactPool ==
    {Hotel(<<"G","r","a","n","d"," ","I","n","n">>, IntVal(150), FloatVal(450)),
     Hotel(<<"S","e","a"," ","V","i","e","w">>, FloatVal(15050), StrVal(<<"4",".","5"," ","s","t","a","r","s">>)),
     Hotel(<<"g","r","a","n","d"," ","i","n","n"," ">>, NoneVal, NoneVal),
     Hotel(<<>>, IntVal(150), FloatVal(450))}
ClaimPool ==
    {Hotel(<<"G","r","a","n","d"," ","I","n","n">>, IntVal(150), FloatVal(450)),
     Hotel(<<"G","r","a","n","d"," ","I","n","n">>, FloatVal(15101), FloatVal(461)),
     Hotel(<<"S","e","a"," ","V","i","e","w">>, FloatVal(15050), FloatVal(450)),
     Hotel(<<"F","a","k","e"," ","I","n","n">>, IntVal(150), FloatVal(450)),
     Hotel(<<" ">>, StrVal(<<"a","b","c">>), NoneVal)}

Tuples(pool, lo, hi) == UNION {[1..n -> pool] : n \in lo..hi}
Repeat(x, n) == [i \in 1..n |-> x]

FactSets == {<<>>} \cup {<<f>> : f \in FactRecords} \cup Tuples(FactPool, 2, MaxFacts)
ClaimSets == {<<>>} \cup {<<c>> : c \in ClaimRecords} \cup Tuples(ClaimPool, 2, MaxClaims)

\* claims for the consistency checker: casings of one name, prices and ratings
\* inside and outside their ranges
ConsistencyPool ==
    {Hotel(n, p, r) :
        n \in {<<"G","r","a","n","d"," ","I","n","n">>, <<"G","R","A","N","D"," ","I","N","N">>, <<"g","r","a","n","d"," ","i","n","n"," ">>, <<"S","e","a"," ","V","i","e","w">>, <<>>},
        p \in {NoneVal, IntVal(-5), StrVal(<<"a","b","c">>)},
        r \in {NoneVal, IntVal(6)}}
ConsistencyClaimSets == Tuples(ConsistencyPool, 0, MaxClaims)

\* answer texts
Texts ==
    {<<>>, <<"o","k">>, <<"G","r","a","n","d"," ","I","n","n">>, <<"G","r","a","n","d"," ","I","n","n"," ","h","o","t","e","l"," ","$","1","5","0">>,
     <<"I"," ","r","e","c","o","m","m","e","n","d"," ","G","r","a","n","d"," ","I","n","n"," ","h","o","t","e","l",","," ","g","r","e","a","t"," ","v","a","l","u","e">>, <<"g","r","e","a","t"," ","v","a","l","u","e"," ","h","o","t","e","l">>,
     <<"D","e","f","i","n","i","t","e","l","y"," ","t","h","e"," ","b","e","s","t"," ","h","o","t","e","l"," ","a","t"," ","$","1","5","0">>}

\* one claim repeated: enough equal values for the uniformity checks and enough
\* modified prices for the floor of the fusion score
RepeatedClaimSets ==
    {Repeat(c, n) : c \in {Hotel(<<"G","r","a","n","d"," ","I","n","n">>, IntVal(150), FloatVal(450)),
                           Hotel(<<"G","r","a","n","d"," ","I","n","n">>, IntVal(5), NoneVal)},
                    n \in 3..MaxRepeat}

\* the sets given to comprehensive_check
CheckFactSets ==
    Tuples({Hotel(<<"G","r","a","n","d"," ","I","n","n">>, IntVal(150), FloatVal(450)),
            Hotel(<<"S","e","a"," ","V","i","e","w">>, FloatVal(15050), StrVal(<<"4",".","5"," ","s","t","a","r","s">>))}, 0, MaxFacts)
CheckClaimSets ==
    Tuples({Hotel(<<"G","r","a","n","d"," ","I","n","n">>, IntVal(150), FloatVal(450)),
            Hotel(<<"G","r","a","n","d"," ","I","n","n">>, FloatVal(15101), IntVal(6)),
            Hotel(<<"S","e","a"," ","V","i","e","w">>, StrVal(<<"a","b","c">>), FloatVal(450)),
            Hotel(<<"F","a","k","e"," ","I","n","n">>, IntVal(150), FloatVal(450)),
            Hotel(<<>>, IntVal(-5), NoneVal)}, 0, MaxClaims)
    \cup RepeatedClaimSets
CheckTexts == {<<>>, <<"o","k">>, <<"G","r","a","n","d"," ","I","n","n"," ","h","o","t","e","l"," ","$","1","5","0">>, <<"D","e","f","i","n","i","t","e","l","y"," ","t","h","e"," ","b","e","s","t"," ","h","o","t","e","l"," ","a","t"," ","$","1","5","0">>}

\* the arguments given to the fusion validator
FusionFactSets ==
    {<<>>,
     <<Hotel(<<"G","r","a","n","d"," ","I","n","n">>, IntVal(150), FloatVal(450))>>,
     <<Hotel(<<"G","r","a","n","d"," ","I","n","n">>, IntVal(150), FloatVal(450)),
       Hotel(<<"S","e","a"," ","V","i","e","w">>, NoneVal, StrVal(<<"4",".","5"," ","s","t","a","r","s">>))>>}
FusionClaimSets ==
    {<<>>,
     <<Hotel(<<"G","r","a","n","d"," ","I","n","n">>, IntVal(150), FloatVal(450))>>,
     <<Hotel(<<"G","r","a","n","d"," ","I","n","n">>, FloatVal(15101), FloatVal(450))>>,
     <<Hotel(<<"F","a","k","e"," ","I","n","n">>, IntVal(150), FloatVal(450))>>}
    \cup RepeatedClaimSets

Idle ==
    /\ messages = <<>>
    /\ tool_calls = <<>>
    /\ full_api_data = EmptyDict
    /\ final_json_str = NoOutput
    /\ corrected_json = NoOutput
    /\ provider = NoProvider
    /\ environ = NoEnviron
    /\ client = NoneVal
    /\ checker_runs = <<>>
    /\ turns = <<>>
    /\ caller_history = <<>>
    /\ all_issues = <<>>
    /\ generator_calls = <<>>
    /\ result = [kind |-> "none", value |-> NoOutput]

Returned(m) == mode = m /\ pc = "return"

----------------------------------------------------------------------------
(* verify_grounding called on any FactSet and ClaimSet                     *)

InitGrounding ==
    /\ mode = "verify_grounding"
    /\ pc = "call"
    /\ api_hotels \in FactSets
    /\ llm_hotels \in ClaimSets
    /\ response_text = <<>>
    /\ discrepancies = <<>>
    /\ summary = NoSummary
    /\ fusion = NoFusion
    /\ fusion_before = NoFusion
    /\ Idle

VerifyGrounding ==
    /\ mode = "verify_grounding"
    /\ pc = "call"
    /\ discrepancies' = verify_grounding(api_hotels, llm_hotels)
    /\ pc' = "return"
    /\ UNCHANGED <<mode, args, summary, fusion, fusion_before, chat>>

NextGrounding == VerifyGrounding

SpecGrounding == InitGrounding /\ [][NextGrounding]_vars

\* the issues of a list that are about the claim at position i
IssuesAt(issues, i, k) ==
    Cardinality({j \in 1..Len(issues) : issues[j].idx = i /\ issues[j].kind = k})
IssuesOfClaim(issues, i) ==
    Cardinality({j \in 1..Len(issues) : issues[j].idx = i})
IssuesOfKind(issues, k) ==
    Cardinality({j \in 1..Len(issues) : issues[j].kind = k})

\* the fact record the verifier pairs with the claim at position i
MatchOf(i) == FindMatch(ApiHotelMap(api_hotels), Lower(Strip(llm_hotels[i].name)))
Matched(i) == Strip(llm_hotels[i].name) # <<>> /\ MatchOf(i).found

----------------------------------------------------------------------------
(* check_consistency called on any ClaimSet                                *)

InitConsistency ==
    /\ mode = "check_consistency"
    /\ pc = "call"
    /\ api_hotels = <<>>
    /\ llm_hotels \in ConsistencyClaimSets
    /\ response_text = <<>>
    /\ discrepancies = <<>>
    /\ summary = NoSummary
    /\ fusion = NoFusion
    /\ fusion_before = NoFusion
    /\ Idle

CheckConsistency ==
    /\ mode = "check_consistency"
    /\ pc = "call"
    /\ discrepancies' = check_consistency(llm_hotels)
    /\ pc' = "return"
    /\ UNCHANGED <<mode, args, summary, fusion, fusion_before, chat>>

NextConsistency == CheckConsistency

SpecConsistency == InitConsistency /\ [][NextConsistency]_vars

----------------------------------------------------------------------------
(* comprehensive_check called on any FactSet, ClaimSet and answer text     *)

InitComprehensive ==
    /\ mode = "comprehensive_check"
    /\ pc = "call"
    /\ api_hotels \in CheckFactSets
    /\ llm_hotels \in CheckClaimSets
    /\ response_text \in CheckTexts
    /\ discrepancies = <<>>
    /\ summary = NoSummary
    /\ fusion = NoFusion
    /\ fusion_before = NoFusion
    /\ Idle

ComprehensiveCheck ==
    /\ mode = "comprehensive_check"
    /\ pc = "call"
    /\ LET r == comprehensive_check(api_hotels, llm_hotels, response_text)
       IN  discrepancies' = r.all_issues /\ summary' = r.summary
    /\ pc' = "return"
    /\ UNCHANGED <<mode, args, fusion, fusion_before, chat>>

NextComprehensive == ComprehensiveCheck

SpecComprehensive == InitComprehensive /\ [][NextComprehensive]_vars

----------------------------------------------------------------------------
(* get_fusion_quality_score called again and again                         *)

InitFusion ==
    /\ mode = "get_fusion_quality_score"
    /\ pc = "call"
    /\ api_hotels \in FusionFactSets
    /\ llm_hotels \in FusionClaimSets
    /\ response_text \in Texts
    /\ discrepancies = <<>>
    /\ summary = NoSummary
    /\ fusion = NoFusion
    /\ fusion_before = NoFusion
    /\ Idle

\* the call returns its score; the result of the call before is kept beside it
GetFusionQualityScore ==
    /\ mode = "get_fusion_quality_score"
    /\ pc = "call"
    /\ fusion' = get_fusion_quality_score(api_hotels, llm_hotels, response_text)
    /\ pc' = "return"
    /\ UNCHANGED <<mode, args, discrepancies, summary, fusion_before, chat>>

\* the next call, on other arguments
CallAgain ==
    /\ mode = "get_fusion_quality_score"
    /\ pc = "return"
    /\ fusion_before = NoFusion
    /\ fusion_before' = fusion
    /\ api_hotels' \in FusionFactSets
    /\ llm_hotels' \in FusionClaimSets
    /\ response_text' \in Texts
    /\ pc' = "call"
    /\ UNCHANGED <<mode, discrepancies, summary, fusion, chat>>

NextFusion == GetFusionQualityScore \/ CallAgain

SpecFusion == InitFusion /\ [][NextFusion]_vars

----------------------------------------------------------------------------
(* LLMEngine.chat: the turn as a state machine                             *)

MaxToolCalls == 2

\* the caller's history: none, or more entries than the limit keeps
Histories ==
    {<<>>, [i \in 1..(HistoryLimit + 1) |-> Msg("user", "history", <<i>>)]}

Paris == <<"P","a","r","i","s">>

\* tool calls the generator can ask for: search_hotels with a city, search_hotels
\* with arguments json.loads rejects (city is then None), and an unknown tool
ToolCallPool ==
    {[name |-> "search_hotels", city |-> Paris],
     [name |-> "search_hotels", city |-> <<>>],
     [name |-> "other", city |-> <<>>]}
ToolCallLists == Tuples(ToolCallPool, 1, MaxToolCalls)

\* data["properties"][:5]
PropertiesLimit == 5

\* the properties the provider can answer with: one, two, or more than
\* search_hotels keeps
LiveResults ==
    {<<Hotel(<<"G","r","a","n","d"," ","I","n","n">>, IntVal(150), FloatVal(450))>>,
     <<Hotel(<<"G","r","a","n","d"," ","I","n","n">>, IntVal(150), FloatVal(450)),
       Hotel(<<"S","e","a"," ","V","i","e","w">>, FloatVal(15050), StrVal(<<"4",".","5"," ","s","t","a","r","s">>))>>,
     [i \in 1..(PropertiesLimit + 1) |-> Hotel(<<"I","n","n"," ">> \o <<DigitChars[i + 1]>>, IntVal(100 + i), FloatVal(400))]}

ProviderOutcomes ==
    {Provider(k, <<>>) : k \in {"key_missing", "timeout", "http_error", "exception", "no_hotels"}}
    \cup {Provider("hotels", h) : h \in LiveResults}

\* APIService._get_mock_hotels giving no hotel at all
get_mock_hotels_Empty(city) == [raised |-> FALSE, hotels |-> <<>>]

\* APIService._get_mock_hotels(city): sum(ord(c) for c in city) raises TypeError
\* when city is None (the model writes None as the empty city)
get_mock_hotels(city) ==
    IF city = <<>> THEN [raised |-> TRUE, hotels |-> <<>>]
    ELSE [raised |-> FALSE, hotels |-> MockHotels(city)]

\* APIService.search_hotels: the provider's hotels, or the mock hotels of the
\* city on every other path; an exception of _get_mock_hotels leaves the function
search_hotels(city, p) ==
    IF p.kind = "hotels"
    THEN [raised |-> FALSE, hotels |-> FirstOf(p.hotels, PropertiesLimit)]
    ELSE get_mock_hotels(city)

\* what the generator can write
Outputs ==
    {Output("text", <<>>, <<"s","o","r","r","y">>),
     Output("json", <<>>, <<"o","k">>),
     Output("json", <<Hotel(<<"G","r","a","n","d"," ","I","n","n">>, IntVal(150), FloatVal(450))>>,
            <<"I"," ","r","e","c","o","m","m","e","n","d"," ","G","r","a","n","d"," ","I","n","n"," ","h","o","t","e","l",","," ","g","r","e","a","t"," ","v","a","l","u","e">>),
     Output("json", <<Hotel(<<"G","r","a","n","d"," ","I","n","n">>, FloatVal(15101), FloatVal(450))>>,
            <<"G","r","a","n","d"," ","I","n","n"," ","h","o","t","e","l"," ","$","1","5","0">>),
     Output("json", <<Hotel(<<"F","a","k","e"," ","I","n","n">>, IntVal(150), FloatVal(450))>>,
            <<"D","e","f","i","n","i","t","e","l","y"," ","t","h","e"," ","b","e","s","t"," ","h","o","t","e","l"," ","a","t"," ","$","1","5","0">>),
     Output("json", <<Hotel(<<"G","r","a","n","d"," ","I","n","n">>, IntVal(150), FloatVal(450)),
                      Hotel(<<"G","R","A","N","D"," ","I","N","N">>, IntVal(150), FloatVal(450))>>,
            <<"G","r","a","n","d"," ","I","n","n">>),
     Output("json", <<Hotel(<<>>, IntVal(150), NoneVal)>>, <<"o","k">>),
     Output("json", <<Hotel(<<"G","r","a","n","d"," ","I","n","n">>, FloatVal(15101), FloatVal(461)),
                      Hotel(<<"F","a","k","e"," ","I","n","n">>, IntVal(-5), IntVal(6))>>, <<"o","k">>)}

\* a return of the answer text without the claims
Returns_TextOnly(value) ==
    [kind |-> "returned", value |-> Output(value.kind, <<>>, value.response_to_user)]

\* lines 370 and 375: the generator output is returned as it is
Returns(value) == [kind |-> "returned", value |-> value]

Raises == [kind |-> "raised", value |-> NoOutput]

NoResult == [kind |-> "none", value |-> NoOutput]

InitChat ==
    /\ mode = "chat"
    /\ pc = "first_call"
    /\ api_hotels = <<>>
    /\ llm_hotels = <<>>
    /\ response_text = <<>>
    /\ discrepancies = <<>>
    /\ summary = NoSummary
    /\ fusion = NoFusion
    /\ fusion_before = NoFusion
    /\ \E history \in Histories : messages = InitialMessages(history)
    /\ tool_calls = <<>>
    /\ full_api_data = EmptyDict
    /\ final_json_str = NoOutput
    /\ corrected_json = NoOutput
    /\ provider = NoProvider
    /\ environ = Environ(NoneVal, StrVal(<<"s","k","-","1">>))
    /\ client = LLMEngine_init(environ).api_key
    /\ checker_runs = <<>>
    /\ turns = <<>>
    /\ caller_history = <<>>
    /\ all_issues = <<>>
    /\ generator_calls = <<>>
    /\ result = NoResult

\* lines 228-241 and 375 with the direct answer given to comprehensive_check
FirstCallAnswers_Checked ==
    /\ mode = "chat" /\ pc = "first_call"
    /\ \E out \in Outputs :
          /\ result' = Returns(out)
          /\ checker_runs' = RunsOn(ComprehensiveRuns(out.response_to_user), "content")
    /\ generator_calls' = Append(generator_calls, "tool_decision")
    /\ pc' = "done"
    /\ UNCHANGED <<mode, args, checker, messages, tool_calls, full_api_data,
                   final_json_str, corrected_json, provider, environ, client, turns,
                   caller_history, all_issues>>

\* lines 228-241 and 375: the first call answers directly
FirstCallAnswers ==
    /\ mode = "chat" /\ pc = "first_call"
    /\ \E out \in Outputs : result' = Returns(out)
    /\ generator_calls' = Append(generator_calls, "tool_decision")
    /\ pc' = "done"
    /\ UNCHANGED <<mode, args, checker, messages, tool_calls, full_api_data,
                   final_json_str, corrected_json, provider, environ, client, turns, caller_history, checker_runs, all_issues>>

\* lines 228-241: the first call asks for tools
FirstCallAsksTools ==
    /\ mode = "chat" /\ pc = "first_call"
    /\ tool_calls' \in ToolCallLists
    /\ generator_calls' = Append(generator_calls, "tool_decision")
    /\ messages' = Append(messages, Msg("assistant", "tool_calls", <<>>))
    /\ full_api_data' = EmptyDict
    /\ pc' = "tool_loop"
    /\ UNCHANGED <<mode, args, checker, final_json_str, corrected_json, provider, environ, client, turns, caller_history, checker_runs, all_issues, result>>

\* lines 243-275 with a merge that keeps the hotels of the first search
SearchTool_KeepsFirst ==
    /\ mode = "chat" /\ pc = "tool_loop"
    /\ tool_calls # <<>> /\ Head(tool_calls).name = "search_hotels"
    /\ \E p \in ProviderOutcomes :
          LET merge(r) ==
                  IF r.raised
                  THEN /\ result' = Raises
                       /\ pc' = "done"
                       /\ UNCHANGED <<full_api_data, messages, tool_calls>>
                  ELSE /\ full_api_data' = IF "top_hotels" \in full_api_data.has
                                           THEN full_api_data
                                           ELSE UpdateWithHotels(full_api_data, r.hotels)
                       /\ messages' = Append(messages,
                             Msg("tool", "search_hotels", FirstOf(r.hotels, TopHotelsLimit)))
                       /\ tool_calls' = Tail(tool_calls)
                       /\ UNCHANGED <<pc, result>>
          IN  /\ provider' = p
              /\ merge(search_hotels(Head(tool_calls).city, p))
    /\ UNCHANGED <<mode, args, checker, final_json_str, corrected_json, environ, client, turns, caller_history,
                   checker_runs, all_issues, generator_calls>>

\* lines 243-275: one search_hotels call and the merge of its result
SearchTool ==
    /\ mode = "chat" /\ pc = "tool_loop"
    /\ tool_calls # <<>> /\ Head(tool_calls).name = "search_hotels"
    /\ \E p \in ProviderOutcomes :
          LET merge(r) ==
                  IF r.raised
                  THEN /\ result' = Raises
                       /\ pc' = "done"
                       /\ UNCHANGED <<full_api_data, messages, tool_calls>>
                  ELSE /\ full_api_data' = UpdateWithHotels(full_api_data, r.hotels)
                       /\ messages' = Append(messages,
                             Msg("tool", "search_hotels", FirstOf(r.hotels, TopHotelsLimit)))
                       /\ tool_calls' = Tail(tool_calls)
                       /\ UNCHANGED <<pc, result>>
          IN  /\ provider' = p
              /\ merge(search_hotels(Head(tool_calls).city, p))
    /\ UNCHANGED <<mode, args, checker, final_json_str, corrected_json, environ, client, turns, caller_history,
                   checker_runs, all_issues, generator_calls>>

\* lines 243-275: a call of a tool that does not exist
UnknownTool ==
    /\ mode = "chat" /\ pc = "tool_loop"
    /\ tool_calls # <<>> /\ Head(tool_calls).name # "search_hotels"
    /\ full_api_data' = UpdateWithError(full_api_data)
    /\ messages' = Append(messages, Msg("tool", Head(tool_calls).name, <<>>))
    /\ tool_calls' = Tail(tool_calls)
    /\ UNCHANGED <<mode, pc, args, checker, final_json_str, corrected_json, provider, environ, client, turns, caller_history, checker_runs, all_issues,
                   generator_calls, result>>

\* lines 278-284: the grounded generation call
SecondCall ==
    /\ mode = "chat" /\ pc = "tool_loop"
    /\ tool_calls = <<>>
    /\ final_json_str' \in Outputs
    /\ generator_calls' = Append(generator_calls, "grounded")
    /\ pc' = "validate"
    /\ UNCHANGED <<mode, args, checker, messages, tool_calls, full_api_data,
                   corrected_json, provider, environ, client, turns, caller_history, checker_runs, all_issues, result>>

\* lines 303-317 with the fusion issues put before the others
WithFusionIssues_First(issues, f) ==
    IF f.issues # <<>> /\ ~f.is_valid THEN f.issues \o issues ELSE issues

\* lines 303-317: the fusion issues join the list when the fusion is invalid
WithFusionIssues(issues, f) ==
    IF f.issues # <<>> /\ ~f.is_valid THEN issues \o f.issues ELSE issues

\* lines 285-343 and 370-373: the output does not parse and is returned as it
\* is; or it is checked, and then returned or sent back with the directive
Validate ==
    /\ mode = "chat" /\ pc = "validate"
    /\ IF final_json_str.kind # "json"
       THEN /\ result' = PassThrough(final_json_str)
            /\ pc' = "done"
            /\ UNCHANGED <<summary, fusion, all_issues, messages, checker_runs>>
       ELSE LET decide(c, f, issues) ==
                    /\ checker_runs' = checker_runs
                                         \o FirstCheckRuns(final_json_str.response_to_user)
                    /\ summary' = c.summary
                    /\ fusion' = f
                    /\ all_issues' = issues
                    /\ IF NeedsCorrection(issues, c.summary)
                       THEN /\ messages' = Append(messages,
                                  Msg("system", "correction", FirstOf(issues, DirectiveLimit)))
                            /\ pc' = "correction_call"
                            /\ UNCHANGED result
                       ELSE /\ result' = Returns(final_json_str)
                            /\ pc' = "done"
                            /\ UNCHANGED messages
                merge(c, f) == decide(c, f, WithFusionIssues(c.all_issues, f))
                check(api, llm, text) ==
                    merge(comprehensive_check(api, llm, text),
                          get_fusion_quality_score(api, llm, text))
            IN  check(TopHotels(full_api_data), final_json_str.top_hotels,
                      final_json_str.response_to_user)
    /\ UNCHANGED <<mode, args, discrepancies, fusion_before, tool_calls, full_api_data,
                   final_json_str, corrected_json, provider, environ, client, turns, caller_history, generator_calls>>

\* lines 345-368: the correction call; its output is checked again and returned
\* whatever the check finds, and also when it does not parse
CorrectionCall ==
    /\ mode = "chat" /\ pc = "correction_call"
    /\ \E out \in Outputs :
          /\ corrected_json' = out
          /\ IF out.kind = "json"
             THEN LET verify(recheck) ==
                          /\ discrepancies' = recheck.issues
                          /\ checker_runs' = checker_runs \o recheck.runs
                          /\ result' = CorrectionResult(final_json_str, out, recheck.issues)
                  IN  verify(Recheck(TopHotels(full_api_data), out.top_hotels,
                                     out.response_to_user))
             ELSE /\ discrepancies' = <<>>
                  /\ result' = PassThrough(out)
                  /\ UNCHANGED checker_runs
    /\ generator_calls' = Append(generator_calls, "correction")
    /\ pc' = "done"
    /\ UNCHANGED <<mode, args, summary, fusion, fusion_before, messages, tool_calls,
                   full_api_data, final_json_str, provider, environ, client, turns, caller_history,
                   all_issues>>

Next ==
    \/ FirstCallAnswers
    \/ FirstCallAsksTools
    \/ SearchTool
    \/ UnknownTool
    \/ SecondCall
    \/ Validate
    \/ CorrectionCall

Spec == InitChat /\ [][Next]_vars

\* the grounded output was parsed and checked
Checked ==
    mode = "chat" /\ pc \in {"correction_call", "done"} /\ final_json_str.kind = "json"

----------------------------------------------------------------------------
(* Properties of verify_grounding                                          *)

\* C1: for every non-empty ClaimSet and empty FactSet, verify_grounding returns
\* exactly one issue, a HallucinatedEntity, and nothing else, whatever the
\* claims contain.
C1_EmptyFactsOneIssue ==
    (Returned("verify_grounding") /\ api_hotels = <<>> /\ llm_hotels # <<>>)
        => discrepancies = <<Issue("HallucinatedEntity", 0)>>

C1_Witness ==
    /\ Returned("verify_grounding")
    /\ api_hotels = <<>>
    /\ Len(llm_hotels) >= 2
    /\ \E i \in 1..Len(llm_hotels) :
          Strip(llm_hotels[i].name) = <<>> /\ llm_hotels[i].price.t = "str"
    /\ Len(discrepancies) = 1

NumericPrice(h) == h.price.t # "none" /\ ToFloat(h.price).ok
PriceGap(i) == Abs(ToFloat(llm_hotels[i].price).v - ToFloat(MatchOf(i).hotel.price).v)

\* every claim names a fact exactly, repeats its rating, and the claims are no
\* more than the facts: the prices are all that can disagree
OnlyPricesMayDisagree ==
    /\ llm_hotels # <<>>
    /\ Len(llm_hotels) <= Len(api_hotels)
    /\ \A i \in 1..Len(llm_hotels) :
          /\ Strip(llm_hotels[i].name) # <<>>
          /\ \E j \in 1..Len(api_hotels) :
                Strip(Lower(api_hotels[j].name)) = Lower(Strip(llm_hotels[i].name))
          /\ llm_hotels[i].rating = MatchOf(i).hotel.rating
          /\ NumericPrice(llm_hotels[i])
          /\ NumericPrice(MatchOf(i).hotel)

\* C2: for a claim matched by name to a fact, both with a numeric price, no
\* PriceContradiction is emitted for the pair when the prices differ by at most
\* 1 and exactly one when they differ by more; and when the prices are the only
\* disagreement, the PriceContradictions are the only issues returned.
C2_PriceTolerance ==
    Returned("verify_grounding") =>
        /\ \A i \in 1..Len(llm_hotels) :
              (Matched(i) /\ NumericPrice(llm_hotels[i]) /\ NumericPrice(MatchOf(i).hotel))
                 => IssuesAt(discrepancies, i, "PriceContradiction")
                        = (IF PriceGap(i) > 100 THEN 1 ELSE 0)
        /\ OnlyPricesMayDisagree =>
              \A j \in 1..Len(discrepancies) : discrepancies[j].kind = "PriceContradiction"

C2_Witness ==
    /\ Returned("verify_grounding")
    /\ Len(llm_hotels) = 1
    /\ OnlyPricesMayDisagree
    /\ PriceGap(1) = 101
    /\ discrepancies = <<Issue("PriceContradiction", 1)>>

\* the claim at position i has a name, and no fact name equals it or is similar
\* to it (one contains the other, the claimed name longer than 5 characters)
NoFactNamed(i) ==
    LET name_key == Lower(Strip(llm_hotels[i].name))
    IN  /\ name_key # <<>>
        /\ \A j \in 1..Len(api_hotels) :
              LET api_name == Strip(Lower(api_hotels[j].name))
              IN  api_name # <<>> =>
                    /\ api_name # name_key
                    /\ ~(/\ Contains(api_name, name_key) \/ Contains(name_key, api_name)
                         /\ Len(name_key) > 5)

RatingOnScale(r) ==
    r.t # "none" /\ RatingNumber(r).ok /\ RatingNumber(r).v >= 0 /\ RatingNumber(r).v <= 500
RatingGap(i) ==
    Abs(RatingNumber(llm_hotels[i].rating).v - RatingNumber(MatchOf(i).hotel.rating).v)

\* C4: for a claim matched by name to a fact, both carrying a rating that parses
\* as a number of the 0-5 scale (0 and 5 included), exactly one
\* RatingContradiction is emitted when the ratings differ by more than 0.1 and
\* none when they differ by at most 0.1.
C4_RatingTolerance ==
    Returned("verify_grounding") =>
        \A i \in 1..Len(llm_hotels) :
            (Matched(i) /\ RatingOnScale(llm_hotels[i].rating)
                        /\ RatingOnScale(MatchOf(i).hotel.rating))
               => IssuesAt(discrepancies, i, "RatingContradiction")
                      = (IF RatingGap(i) > 10 THEN 1 ELSE 0)

\* text is the number of `other` followed by a star/stars suffix
SuffixedFormOf(text, other) ==
    /\ text.t = "str"
    /\ ToFloat(other).ok
    /\ \E k \in 1..Len(text.s) :
          /\ SubSeq(text.s, k + 1, Len(text.s))
                \in {<<" ","s","t","a","r","s">>, <<" ","s","t","a","r">>, <<"s","t","a","r","s">>, <<"s","t","a","r">>}
          /\ ParseFloat(SubSeq(text.s, 1, k)).ok
          /\ ParseFloat(SubSeq(text.s, 1, k)).v = ToFloat(other).v

\* C5: for a name-matched pair, a rating written with a star/stars suffix and the
\* same bare number yield no RatingContradiction, whichever side has the suffix.
C5_RatingSuffixSymmetric ==
    Returned("verify_grounding") =>
        \A i \in 1..Len(llm_hotels) :
            (/\ Matched(i)
             /\ \/ SuffixedFormOf(llm_hotels[i].rating, MatchOf(i).hotel.rating)
                \/ SuffixedFormOf(MatchOf(i).hotel.rating, llm_hotels[i].rating))
               => IssuesAt(discrepancies, i, "RatingContradiction") = 0

C5_Witness ==
    /\ Returned("verify_grounding")
    /\ Len(llm_hotels) = 1
    /\ Matched(1)
    /\ SuffixedFormOf(MatchOf(1).hotel.rating, llm_hotels[1].rating)
    /\ RatingPresent(llm_hotels[1].rating, MatchOf(1).hotel.rating)
    /\ llm_hotels[1].rating.t = "float"
    /\ discrepancies = <<>>

----------------------------------------------------------------------------
(* Properties of check_consistency                                         *)

\* two claims carry names that are equal once lowered
SharedName ==
    \E i, j \in 1..Len(llm_hotels) :
        /\ i < j
        /\ HasName(llm_hotels[i]) /\ HasName(llm_hotels[j])
        /\ Lower(llm_hotels[i].name) = Lower(llm_hotels[j].name)

\* C6: check_consistency yields at least one DuplicateEntity issue for every
\* ClaimSet in which two claims share a case-folded name, whatever their casing,
\* and no DuplicateEntity issue for a ClaimSet whose case-folded names are all
\* distinct.
C6_DuplicateNames ==
    Returned("check_consistency") =>
        IF SharedName THEN IssuesOfKind(discrepancies, "DuplicateEntity") >= 1
        ELSE IssuesOfKind(discrepancies, "DuplicateEntity") = 0

C6_Witness ==
    /\ Returned("check_consistency")
    /\ Len(llm_hotels) = 2
    /\ llm_hotels[1].name # llm_hotels[2].name
    /\ SharedName
    /\ IssuesOfKind(discrepancies, "DuplicateEntity") = 1

----------------------------------------------------------------------------
(* Properties of get_fusion_quality_score                                  *)

\* C7: the fusion score is always an integer of 0..100, and between two results
\* of equal meaningfulness the one with no fewer recorded issues, and a validity
\* that is equal or turned from true to false, never has the higher score.
C7_ScoreBoundedMonotonic ==
    Returned("get_fusion_quality_score") =>
        /\ fusion.score \in 0..100
        /\ (/\ fusion_before # NoFusion
            /\ fusion.is_meaningful = fusion_before.is_meaningful
            /\ fusion_before.is_valid \/ ~fusion.is_valid
            /\ Len(fusion.issues) >= Len(fusion_before.issues))
           => fusion.score <= fusion_before.score

\* a valid result followed by an invalid one whose penalties pass 100
C7_Witness ==
    /\ Returned("get_fusion_quality_score")
    /\ fusion_before # NoFusion
    /\ fusion_before.is_valid /\ ~fusion.is_valid
    /\ fusion.is_meaningful = fusion_before.is_meaningful
    /\ Len(fusion.issues) > Len(fusion_before.issues)
    /\ RawScore(fusion.is_valid, fusion.is_meaningful, Len(fusion.issues)) < 0
    /\ fusion.score = 0
    /\ fusion_before.score > 0

----------------------------------------------------------------------------
(* Properties of comprehensive_check                                       *)

CriticalKinds ==
    {"HallucinatedEntity", "PriceContradiction", "RatingContradiction",
     "CountMismatch", "InvalidFormat"}

HasCriticalKind(issues) == \E j \in 1..Len(issues) : issues[j].kind \in CriticalKinds

\* a claim with a blank name was checked against a non-empty FactSet
BlankNameGrounded ==
    /\ api_hotels # <<>>
    /\ \E i \in 1..Len(llm_hotels) : Strip(llm_hotels[i].name) = <<>>

\* C9 as stated: has_critical_issues is true if and only if the merged issue list
\* holds an issue of kind HallucinatedEntity, PriceContradiction,
\* RatingContradiction, CountMismatch or InvalidFormat.
C9_CriticalIffCriticalKind ==
    Returned("comprehensive_check") =>
        (summary.has_critical_issues <=> HasCriticalKind(discrepancies))

\* C9 amended: has_critical_issues is true if and only if the merged issue list
\* holds an issue of one of the five kinds or a claim with a blank name was
\* checked against a non-empty FactSet; issues of the other kinds alone never
\* make it true.
C9_CriticalIffGroundingIssue ==
    Returned("comprehensive_check") =>
        (summary.has_critical_issues
            <=> (HasCriticalKind(discrepancies) \/ BlankNameGrounded))

C9_Witness ==
    /\ Returned("comprehensive_check")
    /\ BlankNameGrounded
    /\ ~HasCriticalKind(discrepancies)
    /\ IssuesOfKind(discrepancies, "MissingName") = 2
    /\ summary.has_critical_issues

----------------------------------------------------------------------------
(* Properties of a chat turn                                               *)

\* C8: when the check of the grounded output finds no critical issue, the turn
\* returns that output string as it is and makes no generator call after the
\* grounded one.
C8_CleanReturnsVerbatim ==
    (Checked /\ ~summary.has_critical_issues) =>
        /\ pc = "done"
        /\ result = Returns(final_json_str)
        /\ generator_calls = <<"tool_decision", "grounded">>

\* the check found issues, none of them critical
C8_Witness ==
    /\ Checked
    /\ ~summary.has_critical_issues
    /\ all_issues # <<>>
    /\ final_json_str.top_hotels # <<>>
    /\ result = Returns(final_json_str)

\* C10: in every turn whose FactSet is empty and whose checked output carries a
\* claim, the summary has has_critical_issues = true and confidence LOW, and the
\* turn goes to the correction call and does not end without it.
C10_EmptyFactsForceCorrection ==
    (Checked /\ TopHotels(full_api_data) = <<>> /\ final_json_str.top_hotels # <<>>) =>
        /\ summary.has_critical_issues
        /\ summary.confidence = "LOW"
        /\ \/ pc = "correction_call"
           \/ /\ pc = "done"
              /\ generator_calls = <<"tool_decision", "grounded", "correction">>

C10_Witness ==
    /\ Checked
    /\ pc = "done"
    /\ "error" \in full_api_data.has
    /\ TopHotels(full_api_data) = <<>>
    /\ final_json_str.top_hotels # <<>>
    /\ summary.has_critical_issues
    /\ generator_calls = <<"tool_decision", "grounded", "correction">>

----------------------------------------------------------------------------
(* check_plausibility called on any ClaimSet                               *)

MaxPlausible == 3

\* claims for the plausibility checker: equal prices in two spellings, ratings
\* with and without suffix, values float() rejects, the rating 0
PlausibilityPool ==
    {Hotel(<<"G","r","a","n","d"," ","I","n","n">>, p, r) :
        p \in {NoneVal, IntVal(100), StrVal(<<"1","0","0",".","0">>), StrVal(<<"a","b","c">>)},
        r \in {NoneVal, IntVal(0), FloatVal(450), StrVal(<<"4",".","5"," ","s","t","a","r","s">>)}}
PlausibilityClaimSets == Tuples(PlausibilityPool, 0, MaxPlausible)

InitPlausibility ==
    /\ mode = "check_plausibility"
    /\ pc = "call"
    /\ api_hotels = <<>>
    /\ llm_hotels \in PlausibilityClaimSets
    /\ response_text = <<>>
    /\ discrepancies = <<>>
    /\ summary = NoSummary
    /\ fusion = NoFusion
    /\ fusion_before = NoFusion
    /\ Idle

CheckPlausibility ==
    /\ mode = "check_plausibility"
    /\ pc = "call"
    /\ discrepancies' = check_plausibility(llm_hotels)
    /\ pc' = "return"
    /\ UNCHANGED <<mode, args, summary, fusion, fusion_before, chat>>

NextPlausibility == CheckPlausibility

SpecPlausibility == InitPlausibility /\ [][NextPlausibility]_vars

\* the prices and the ratings of the claims that parse as numbers
PriceValues ==
    {i \in 1..Len(llm_hotels) : NumericPrice(llm_hotels[i])}
RatingValues ==
    {i \in 1..Len(llm_hotels) :
        llm_hotels[i].rating.t # "none" /\ RatingNumber(llm_hotels[i].rating).ok}
UniformPrices ==
    /\ Cardinality(PriceValues) > 2
    /\ \A i, j \in PriceValues :
          ToFloat(llm_hotels[i].price).v = ToFloat(llm_hotels[j].price).v
UniformRatings ==
    /\ Cardinality(RatingValues) > 2
    /\ \A i, j \in RatingValues :
          RatingNumber(llm_hotels[i].rating).v = RatingNumber(llm_hotels[j].rating).v
UniformityIssues(f) ==
    Cardinality({j \in 1..Len(discrepancies) :
                    discrepancies[j].kind = "SuspiciousUniformity"
                    /\ discrepancies[j].about = f})

\* C11: check_plausibility emits a price SuspiciousUniformity issue if and only
\* if the claims carry more than 2 parseable prices, all equal, and a rating
\* SuspiciousUniformity issue if and only if they carry more than 2 parseable
\* ratings, all equal.
C11_UniformityIff ==
    Returned("check_plausibility") =>
        /\ UniformityIssues("price") = (IF UniformPrices THEN 1 ELSE 0)
        /\ UniformityIssues("rating") = (IF UniformRatings THEN 1 ELSE 0)

----------------------------------------------------------------------------
(* verify_grounding called with the facts repeated as the claims           *)

\* fact records: one name in two casings, a second name, a blank and an empty
\* name; numeric prices and ratings with and without suffix
EchoPool ==
    {Hotel(n, p, r) :
        n \in {<<"G","r","a","n","d"," ","I","n","n">>, <<"G","R","A","N","D"," ","I","N","N">>, <<"S","e","a"," ","V","i","e","w">>, <<" ">>, <<>>},
        p \in {NoneVal, IntVal(150), FloatVal(20050)},
        r \in {NoneVal, FloatVal(450), StrVal(<<"4",".","5"," ","s","t","a","r","s">>)}}
EchoFactSets == Tuples(EchoPool, 1, MaxFacts)

InitEcho ==
    /\ mode = "verify_grounding"
    /\ pc = "call"
    /\ api_hotels \in EchoFactSets
    /\ llm_hotels = api_hotels
    /\ response_text = <<>>
    /\ discrepancies = <<>>
    /\ summary = NoSummary
    /\ fusion = NoFusion
    /\ fusion_before = NoFusion
    /\ Idle

SpecEcho == InitEcho /\ [][NextGrounding]_vars

Echoed == Returned("verify_grounding") /\ api_hotels # <<>> /\ llm_hotels = api_hotels

\* no two fact records have the same name once lowered and trimmed
DistinctFactNames ==
    \A i, j \in 1..Len(api_hotels) :
        i # j => Strip(Lower(api_hotels[i].name)) # Strip(Lower(api_hotels[j].name))

\* C12 as stated: for every non-empty FactSet whose records all have non-empty
\* names, verify_grounding returns no issue when the claims are the fact
\* records repeated unchanged.
C12_EchoNoIssue ==
    (Echoed /\ \A i \in 1..Len(api_hotels) : api_hotels[i].name # <<>>)
        => discrepancies = <<>>

\* C12 amended: for every non-empty FactSet whose records all have non-blank
\* names, pairwise distinct once lowered and trimmed, verify_grounding returns
\* no issue when the claims are the fact records repeated unchanged.
C12_EchoDistinctNoIssue ==
    (/\ Echoed
     /\ \A i \in 1..Len(api_hotels) : Strip(api_hotels[i].name) # <<>>
     /\ DistinctFactNames)
        => discrepancies = <<>>

C12_Witness ==
    /\ Echoed
    /\ Len(api_hotels) = 2
    /\ DistinctFactNames
    /\ \A i \in 1..2 :
          /\ Strip(api_hotels[i].name) # <<>>
          /\ api_hotels[i].price.t # "none"
          /\ api_hotels[i].rating.t # "none"
    /\ api_hotels[1].rating.t = "str"
    /\ discrepancies = <<>>

----------------------------------------------------------------------------
(* Properties of a chat turn: the calls made and the value returned        *)

\* C13: in every execution of a turn the generator calls are, in order, at most
\* the tool-decision call, the grounded call and one correction call, checking
\* is never entered again after the correction, and the turn ends with a
\* returned result.
C13_BoundedTurnReturns ==
    mode = "chat" =>
        /\ IsPrefix(generator_calls, <<"tool_decision", "grounded", "correction">>)
        /\ pc = "done" => result.kind = "returned"

\* C14: when the check of the grounded output finds a critical issue, the turn
\* returns exactly the output string of the correction call, whether the check
\* of that output finds issues or none.
C14_CriticalReturnsCorrection ==
    (Checked /\ summary.has_critical_issues /\ pc = "done") =>
        /\ generator_calls = <<"tool_decision", "grounded", "correction">>
        /\ corrected_json # NoOutput
        /\ result = Returns(corrected_json)

\* the corrected output differs from the checked one and still has issues
C14_Witness ==
    /\ Checked
    /\ summary.has_critical_issues
    /\ pc = "done"
    /\ corrected_json.kind = "json"
    /\ corrected_json # final_json_str
    /\ discrepancies # <<>>
    /\ result = Returns(corrected_json)

\* C15: a grounded output that does not parse is returned as it is, no checker
\* runs and no correction call is made; a correction output that does not parse
\* is returned as it is; neither ends the turn in an error.
C15_UnparseablePassesThrough ==
    mode = "chat" =>
        /\ final_json_str.kind = "text" =>
              /\ pc \in {"validate", "done"}
              /\ summary = NoSummary /\ fusion = NoFusion /\ all_issues = <<>>
              /\ pc = "done" =>
                    /\ result = Returns(final_json_str)
                    /\ generator_calls = <<"tool_decision", "grounded">>
        /\ (pc = "done" /\ corrected_json.kind = "text") =>
              result = Returns(corrected_json)

C15_Witness ==
    /\ mode = "chat"
    /\ pc = "done"
    /\ TopHotels(full_api_data) # <<>>
    /\ final_json_str.kind = "text"
    /\ result = Returns(final_json_str)
    /\ corrected_json = NoOutput

----------------------------------------------------------------------------
(* verify_grounding called on records whose name may be absent, null or    *)
(* not a string                                                            *)

\* a record without the key "name"
Absent == [t |-> "absent", v |-> 0, s |-> <<>>]

\* h.get("name", ""): the value of the key, "" when the key is absent
GetName(h) == IF h.name.t = "absent" THEN StrVal(<<>>) ELSE h.name

\* .lower() and .strip() raise AttributeError on a value that is not a str
NameRaises(h) == GetName(h).t # "str"

\* ', '.join(available_names) of lines 90-93 raises TypeError when h.get("name")
\* of one of the first three facts is not a str
JoinRaises(api) ==
    \E i \in 1..Len(api) : i <= 3 /\ api[i].name.t # "str"

\* the record as the string operations see it
Typed(h) == Hotel(GetName(h).s, h.price, h.rating)
TypedAll(hotels) == [i \in 1..Len(hotels) |-> Typed(hotels[i])]

\* line 89: the claim at position i reaches the HALLUCINATED HOTEL message
ReachesJoin(api, llm, i) ==
    ClaimCheck(ApiHotelMap(TypedAll(api)), Typed(llm[i]), i)
        = <<Issue("HallucinatedEntity", i)>>

\* lines 17-156 on such records: the issue list, or the exception
verify_grounding_raw(api, llm) ==
    IF api = <<>> \/ llm = <<>>
    THEN [raised |-> FALSE, issues |-> verify_grounding(api, llm)]
    ELSE IF \/ \E j \in 1..Len(api) : NameRaises(api[j])
            \/ \E i \in 1..Len(llm) :
                  \/ NameRaises(llm[i])
                  \/ ReachesJoin(api, llm, i) /\ JoinRaises(api)
    THEN [raised |-> TRUE, issues |-> <<>>]
    ELSE [raised |-> FALSE, issues |-> verify_grounding(TypedAll(api), TypedAll(llm))]

RawFactPool ==
    {Hotel(StrVal(<<"G","r","a","n","d"," ","I","n","n">>), IntVal(150), FloatVal(450)),
     Hotel(StrVal(<<"G","r","a","n","d"," ","I","n","n">>), StrVal(<<"a","b","c">>), NoneVal),
     Hotel(NoneVal, IntVal(150), FloatVal(450)),
     Hotel(Absent, IntVal(150), FloatVal(450))}
RawClaimPool ==
    {Hotel(StrVal(<<"G","r","a","n","d"," ","I","n","n">>), IntVal(150), FloatVal(450)),
     Hotel(StrVal(<<"G","r","a","n","d"," ","I","n","n">>), StrVal(<<"a","b","c">>), StrVal(<<"N","/","A">>)),
     Hotel(StrVal(<<"F","a","k","e"," ","I","n","n">>), IntVal(150), NoneVal),
     Hotel(NoneVal, IntVal(150), NoneVal),
     Hotel(IntVal(5), NoneVal, NoneVal),
     Hotel(Absent, NoneVal, NoneVal)}
RawFactSets == Tuples(RawFactPool, 0, MaxFacts)
RawClaimSets == Tuples(RawClaimPool, 0, MaxClaims)

InitMalformed ==
    /\ mode = "verify_grounding_raw"
    /\ pc = "call"
    /\ api_hotels \in RawFactSets
    /\ llm_hotels \in RawClaimSets
    /\ response_text = <<>>
    /\ discrepancies = <<>>
    /\ summary = NoSummary
    /\ fusion = NoFusion
    /\ fusion_before = NoFusion
    /\ Idle

\* the call returns its issue list or ends in the exception
VerifyGroundingRaw ==
    /\ mode = "verify_grounding_raw"
    /\ pc = "call"
    /\ LET finish(outcome) ==
               /\ discrepancies' = outcome.issues
               /\ pc' = IF outcome.raised THEN "raise" ELSE "return"
       IN  finish(verify_grounding_raw(api_hotels, llm_hotels))
    /\ UNCHANGED <<mode, args, summary, fusion, fusion_before, chat>>

NextMalformed == VerifyGroundingRaw

SpecMalformed == InitMalformed /\ [][NextMalformed]_vars

\* C16: verify_grounding never raises: for every FactSet and ClaimSet whose
\* records may have a field absent, null or of an unexpected type, the call
\* returns a list of issues.
C16_NeverRaises ==
    mode = "verify_grounding_raw" => pc # "raise"

\* ---------------------------------------------------------------------------
\* APIService.search_hotels on its own: one call with a city the orchestrator
\* passes on from the generator's tool call (a city name, or None when the
\* arguments hold no city) and one thing the provider request does
\* ---------------------------------------------------------------------------
SearchCities ==
    {<<>>, <<"P","a","r","i","s">>, <<"R","o","m","e">>, <<"O","s","l","o">>, <<"L","i","m","a">>, <<"B","e","r","n">>, <<"N","i","c","e">>, <<"N","e","w"," ","Y","o","r","k">>}

InitSearch ==
    /\ mode = "search_hotels"
    /\ pc = "call"
    /\ api_hotels = <<>>
    /\ llm_hotels = <<>>
    /\ response_text = <<>>
    /\ discrepancies = <<>>
    /\ summary = NoSummary
    /\ fusion = NoFusion
    /\ fusion_before = NoFusion
    /\ messages = <<>>
    /\ \E city \in SearchCities : tool_calls = <<[name |-> "search_hotels", city |-> city]>>
    /\ provider \in ProviderOutcomes
    /\ environ = NoEnviron
    /\ client = NoneVal
    /\ checker_runs = <<>>
    /\ turns = <<>>
    /\ caller_history = <<>>
    /\ full_api_data = EmptyDict
    /\ final_json_str = NoOutput
    /\ corrected_json = NoOutput
    /\ all_issues = <<>>
    /\ generator_calls = <<>>
    /\ result = [kind |-> "none", value |-> NoOutput]

\* the call returns its hotels or ends in the exception
SearchHotelsCall ==
    /\ mode = "search_hotels"
    /\ pc = "call"
    /\ LET finish(outcome) ==
               /\ api_hotels' = outcome.hotels
               /\ pc' = IF outcome.raised THEN "raise" ELSE "return"
       IN  finish(search_hotels(Head(tool_calls).city, provider))
    /\ UNCHANGED <<mode, llm_hotels, response_text, discrepancies, summary, fusion,
                   fusion_before, chat>>

NextSearch == SearchHotelsCall

SpecSearch == InitSearch /\ [][NextSearch]_vars

\* the provider gave no hotels: the key is missing, or the request failed or
\* came back without a priced hotel
ProviderFailed == provider.kind # "hotels"

\* C17: every search_hotels call returns without raising, whatever the city
\* (absent included); when the provider gives no hotels, for any of the reasons,
\* it returns the non-empty mock hotels, which are determined by the city alone.
C17_SearchNeverRaises ==
    (mode = "search_hotels" /\ pc # "call") =>
        /\ pc = "return"
        /\ ProviderFailed =>
               /\ api_hotels # <<>>
               /\ api_hotels = MockHotels(Head(tool_calls).city)

\* ---------------------------------------------------------------------------
\* Startup (main.py lines 20-25, cli.py line 9): the engine is constructed from
\* the environment before any request is served; a ValueError of the
\* constructor is raised again and ends the process
\* ---------------------------------------------------------------------------
CredentialValues ==
    {NoneVal, StrVal(<<>>), StrVal(<<" ">>), StrVal(<<" "," ">>),
     StrVal(<<"s","k","-","1">>), StrVal(<<" ","s","k","-","1"," ">>), StrVal(<<"s","k","-","2">>)}

InitStartup ==
    /\ mode = "startup"
    /\ pc = "start"
    /\ api_hotels = <<>>
    /\ llm_hotels = <<>>
    /\ response_text = <<>>
    /\ discrepancies = <<>>
    /\ summary = NoSummary
    /\ fusion = NoFusion
    /\ fusion_before = NoFusion
    /\ messages = <<>>
    /\ tool_calls = <<>>
    /\ provider = NoProvider
    /\ \E a \in CredentialValues, b \in CredentialValues : environ = Environ(a, b)
    /\ client = NoneVal
    /\ checker_runs = <<>>
    /\ turns = <<>>
    /\ caller_history = <<>>
    /\ full_api_data = EmptyDict
    /\ final_json_str = NoOutput
    /\ corrected_json = NoOutput
    /\ all_issues = <<>>
    /\ generator_calls = <<>>
    /\ result = [kind |-> "none", value |-> NoOutput]

\* main.py line 22: engine = LLMEngine()
Construct ==
    /\ mode = "startup"
    /\ pc = "start"
    /\ LET finish(engine) ==
               /\ client' = engine.api_key
               /\ pc' = IF engine.raised THEN "raise" ELSE "serving"
       IN  finish(LLMEngine_init(environ))
    /\ UNCHANGED <<mode, args, checker, messages, tool_calls, full_api_data, final_json_str,
                   corrected_json, provider, environ, checker_runs, turns, caller_history,
                   all_issues,
                   generator_calls, result>>

\* main.py lines 34-38: a request reaches engine.chat
HandleChat ==
    /\ mode = "startup"
    /\ pc = "serving"
    /\ pc' = "chat"
    /\ messages' = <<Msg("user", "user_input", <<>>)>>
    /\ UNCHANGED <<mode, args, checker, tool_calls, full_api_data, final_json_str,
                   corrected_json, provider, environ, client, checker_runs, turns,
                   caller_history, all_issues,
                   generator_calls, result>>

NextStartup == Construct \/ HandleChat

SpecStartup == InitStartup /\ [][NextStartup]_vars

\* a credential variable holds a non-blank value
NonBlank(x) == x.t = "str" /\ Strip(x.s) # <<>>

NoCredential ==
    ~NonBlank(environ.OPEN_AI_API_KEY) /\ ~NonBlank(environ.OPENAI_API_KEY)

\* C18: when neither credential variable holds a non-blank value (unset, empty
\* or whitespace only) the construction of the engine ends in the error and no
\* engine exists; no chat turn runs on an engine whose key is missing or blank.
C18_NoCredentialFailsAtStartup ==
    mode = "startup" =>
        /\ (NoCredential /\ pc # "start") => (pc = "raise" /\ client = NoneVal)
        /\ pc = "chat" => NonBlank(client)

\* whitespace only in one variable, the other unset: construction has failed
C18_Witness ==
    /\ mode = "startup"
    /\ pc = "raise"
    /\ environ = Environ(StrVal(<<" "," ">>), NoneVal)

\* ---------------------------------------------------------------------------
\* verify_grounding on names that contain one another: short and long fact
\* names against short and long claimed names
\* ---------------------------------------------------------------------------
FuzzyNames ==
    {<<"I","n","n">>, <<"G","r","a","n","d">>, <<"G","r","a","n","d"," ","I","n","n">>, <<"T","h","e"," ","G","r","a","n","d"," ","I","n","n">>, <<"P","l","a","z","a"," ","H","o","t","e","l">>}
FuzzyPool == {Hotel(n, IntVal(150), FloatVal(450)) : n \in FuzzyNames}
FuzzyFactSets == Tuples(FuzzyPool, 1, MaxFacts)
FuzzyClaimSets == Tuples(FuzzyPool, 1, MaxClaims)

InitFuzzy ==
    /\ mode = "verify_grounding"
    /\ pc = "call"
    /\ api_hotels \in FuzzyFactSets
    /\ llm_hotels \in FuzzyClaimSets
    /\ response_text = <<>>
    /\ discrepancies = <<>>
    /\ summary = NoSummary
    /\ fusion = NoFusion
    /\ fusion_before = NoFusion
    /\ Idle

SpecFuzzy == InitFuzzy /\ [][NextGrounding]_vars

\* the keys verify_grounding compares
ClaimKey(i) == Lower(Strip(llm_hotels[i].name))
FactKey(j) == Strip(Lower(api_hotels[j].name))

\* one name contains the other and the shorter one is longer than 5 characters
Similar(a, b) ==
    /\ Contains(a, b) \/ Contains(b, a)
    /\ (IF Len(a) < Len(b) THEN Len(a) ELSE Len(b)) > 5

NoExactMatch(i) ==
    ClaimKey(i) # <<>> /\ \A j \in 1..Len(api_hotels) : FactKey(j) # ClaimKey(i)

\* C19: a claimed name without an exact case-folded match is matched to a fact
\* (it gets no HallucinatedEntity issue) exactly when some fact name and it
\* contain one another and the shorter of the two is longer than 5 characters;
\* the test gives the same answer with claim and fact swapped.
C19_FuzzyShorterGuardSymmetric ==
    Returned("verify_grounding") =>
        \A i \in 1..Len(llm_hotels) :
            /\ NoExactMatch(i) =>
                  (IssuesAt(discrepancies, i, "HallucinatedEntity") = 0
                     <=> \E j \in 1..Len(api_hotels) : Similar(ClaimKey(i), FactKey(j)))
            /\ \A j \in 1..Len(api_hotels) :
                  FuzzyTest(ClaimKey(i), FactKey(j)) = FuzzyTest(FactKey(j), ClaimKey(i))

\* C20: for a non-empty FactSet the returned issues hold exactly one
\* CountMismatch when there are more claims than fact records and none
\* otherwise; it comes first, before every per-claim issue, and the claims are
\* still checked one by one: a claim naming no fact gets its HallucinatedEntity.
C20_CountMismatchOnceFirst ==
    (Returned("verify_grounding") /\ api_hotels # <<>>) =>
        /\ IssuesOfKind(discrepancies, "CountMismatch")
              = (IF Len(llm_hotels) > Len(api_hotels) THEN 1 ELSE 0)
        /\ \A j \in 1..Len(discrepancies) :
              discrepancies[j].kind = "CountMismatch" => j = 1
        /\ \A i \in 1..Len(llm_hotels) :
              NoFactNamed(i) => IssuesAt(discrepancies, i, "HallucinatedEntity") = 1

\* more claims than facts, the last claim names no fact: the count issue first,
\* the claim's issue after it
C20_Witness ==
    /\ Returned("verify_grounding")
    /\ api_hotels # <<>>
    /\ Len(llm_hotels) > Len(api_hotels)
    /\ discrepancies # <<>>
    /\ discrepancies[1].kind = "CountMismatch"
    /\ NoFactNamed(Len(llm_hotels))
    /\ discrepancies[Len(discrepancies)].kind = "HallucinatedEntity"
    /\ discrepancies[Len(discrepancies)].idx = Len(llm_hotels)

\* ---------------------------------------------------------------------------
\* validate_fusion_quality: the causes of is_valid = false, read off the
\* arguments of the call
\* ---------------------------------------------------------------------------
\* (a) facts but no claims
IgnoredFacts == api_hotels # <<>> /\ llm_hotels = <<>>

\* (b) facts and claims without a common case-folded name
NoSharedName ==
    /\ api_hotels # <<>> /\ llm_hotels # <<>>
    /\ \A i \in 1..Len(llm_hotels), j \in 1..Len(api_hotels) :
          Lower(llm_hotels[i].name) # Lower(api_hotels[j].name)

FactNamedIn(text) ==
    \E j \in 1..Len(api_hotels) :
        api_hotels[j].name # <<>> /\ Contains(Lower(text), Lower(api_hotels[j].name))

\* (c) as the claim states it: facts, and no fact name in the text
NoFactMentioned == api_hotels # <<>> /\ ~FactNamedIn(response_text)

\* (c) as the code tests it: only with claims and a non-empty text
NoFactMentionedInText ==
    /\ api_hotels # <<>> /\ llm_hotels # <<>> /\ response_text # <<>>
    /\ ~FactNamedIn(response_text)

PricesDiffer(lh, ah) ==
    /\ NumericPrice(lh) /\ NumericPrice(ah)
    /\ Abs(ToFloat(lh.price).v - ToFloat(ah.price).v) > 100

\* (d) a claim and a fact of the same case-folded name whose prices differ by
\* more than 1.0; the fact is the last one of that name
PriceModified ==
    /\ api_hotels # <<>> /\ llm_hotels # <<>>
    /\ \E i \in 1..Len(llm_hotels), j \in 1..Len(api_hotels) :
          /\ api_hotels[j].name # <<>>
          /\ Lower(llm_hotels[i].name) = Lower(api_hotels[j].name)
          /\ \A k \in (j + 1)..Len(api_hotels) :
                Lower(api_hotels[k].name) # Lower(api_hotels[j].name)
          /\ PricesDiffer(llm_hotels[i], api_hotels[j])

\* (e) facts and a non-empty text without "$", "star", "rating", "night", "hotel"
NoFactualIndicator ==
    /\ api_hotels # <<>> /\ response_text # <<>>
    /\ \A k \in 1..Len(factual_indicators) :
          ~Contains(Lower(response_text), factual_indicators[k])

\* C21 as stated: is_valid is false exactly when (a), (b), (c) or (d) holds.
C21_InvalidIffFourCauses ==
    Returned("get_fusion_quality_score") =>
        (~fusion.is_valid <=> (IgnoredFacts \/ NoSharedName \/ NoFactMentioned \/ PriceModified))

\* C21: is_valid is false exactly when (a) facts and no claims, (b) facts and
\* claims without a common case-folded name, (c) facts, claims and a non-empty
\* text naming no fact, (d) a name-matched price pair differing by more than 1.0,
\* or (e) facts and a non-empty text without any factual indicator.
C21_InvalidIffFiveCauses ==
    Returned("get_fusion_quality_score") =>
        (~fusion.is_valid <=>
            (IgnoredFacts \/ NoSharedName \/ NoFactMentionedInText \/ PriceModified
                \/ NoFactualIndicator))

\* the text names the claimed fact and nothing else is wrong, but it holds no
\* factual indicator: invalid by (e) alone
C21_Witness ==
    /\ Returned("get_fusion_quality_score")
    /\ ~fusion.is_valid
    /\ NoFactualIndicator
    /\ ~(IgnoredFacts \/ NoSharedName \/ NoFactMentionedInText \/ PriceModified)

\* ---------------------------------------------------------------------------
\* the checkers a turn calls
\* ---------------------------------------------------------------------------
\* the names of the checkers called on one generator output, in call order
RunsOf(output) ==
    LET picked == SelectSeq(checker_runs, LAMBDA r : r.output = output)
    IN  [i \in 1..Len(picked) |-> picked[i].checker]

TimesRun(name) ==
    Cardinality({i \in 1..Len(checker_runs) : checker_runs[i].checker = name})

OnlyNonGroundingIssues ==
    /\ final_json_str.kind = "json"
    /\ all_issues # <<>>
    /\ verify_grounding(TopHotels(full_api_data), final_json_str.top_hotels) = <<>>

\* C23: a turn whose checked output has only consistency, plausibility,
\* misinformation-pattern or fusion issues (an invalid fusion included) and no
\* grounding issue makes no correction call and returns the checked output as
\* the generator wrote it.
C23_NonCriticalNeverCorrected ==
    (mode = "chat" /\ pc \in {"correction_call", "done"} /\ OnlyNonGroundingIssues) =>
        /\ pc = "done"
        /\ result = [kind |-> "returned", value |-> final_json_str]
        /\ generator_calls = <<"tool_decision", "grounded">>
        /\ corrected_json = NoOutput

\* a duplicate name and an invalid fusion, and the output is returned
C23_Witness ==
    /\ mode = "chat" /\ pc = "done"
    /\ OnlyNonGroundingIssues
    /\ ~fusion.is_valid
    /\ \E i \in 1..Len(all_issues) : all_issues[i].kind = "DuplicateEntity"
    /\ \E i \in 1..Len(all_issues) : all_issues[i].kind = "FusionNoFacts"
    /\ result.value = final_json_str

\* ---------------------------------------------------------------------------
\* detect_misinformation_patterns called on texts that match none, one or
\* several patterns of each list, with and without facts
\* ---------------------------------------------------------------------------
MisinformationTextPool ==
    {a \o b \o c :
        a \in {<<>>, <<"D","e","f","i","n","i","t","e","l","y"," ">>, <<"d","e","f","i","n","i","t","e","l","y"," ","a","n","d"," ","c","e","r","t","a","i","n","l","y"," ">>, <<"A","L","W","A","Y","S"," ">>},
        b \in {<<>>, <<"t","h","e"," ","b","e","s","t"," ","h","o","t","e","l"," ">>, <<"T","o","p"," ","R","a","t","e","d",","," ","m","o","s","t"," ","p","o","p","u","l","a","r"," ">>},
        c \in {<<>>, <<"$","1","5","0">>, <<"$","1","5","0"," ","o","r"," ","$","2","0","0">>, <<"$"," ","c","h","e","a","p">>, <<"1","5","0">>}}

InitMisinformation ==
    /\ mode = "detect_misinformation_patterns"
    /\ pc = "call"
    /\ api_hotels \in FusionFactSets
    /\ llm_hotels = <<>>
    /\ response_text \in MisinformationTextPool
    /\ discrepancies = <<>>
    /\ summary = NoSummary
    /\ fusion = NoFusion
    /\ fusion_before = NoFusion
    /\ Idle

DetectMisinformation ==
    /\ mode = "detect_misinformation_patterns"
    /\ pc = "call"
    /\ discrepancies' = detect_misinformation_patterns(response_text, api_hotels)
    /\ pc' = "return"
    /\ UNCHANGED <<mode, args, summary, fusion, fusion_before, chat>>

NextMisinformation == DetectMisinformation

SpecMisinformation == InitMisinformation /\ [][NextMisinformation]_vars

\* the text holds a word of the list, in any case
HoldsOneOf(words) ==
    \E i \in 1..Len(words) : Contains(Lower(response_text), words[i])

\* the text holds a "$" followed by a digit
HoldsAmount ==
    \E i \in 1..Len(response_text) :
        /\ response_text[i] = "$"
        /\ i < Len(response_text)
        /\ response_text[i + 1] \in {"0", "1", "2", "3", "4", "5", "6", "7", "8", "9"}

\* C24: with facts the detector returns no issue, whatever the text; without
\* facts it returns at most one issue of each of its three kinds (at most 3 in
\* all), each exactly when the text matches the overconfidence lexicon, the
\* superlative lexicon, or the currency-amount pattern.
C24_PatternsOnlyWithoutFacts ==
    Returned("detect_misinformation_patterns") =>
        /\ api_hotels # <<>> => discrepancies = <<>>
        /\ api_hotels = <<>> =>
              /\ IssuesOfKind(discrepancies, "UnsupportedOverconfidence")
                    = (IF HoldsOneOf(overconfident_patterns) THEN 1 ELSE 0)
              /\ IssuesOfKind(discrepancies, "UnsupportedSuperlative")
                    = (IF HoldsOneOf(vague_data_patterns) THEN 1 ELSE 0)
              /\ IssuesOfKind(discrepancies, "UnsupportedNumeric")
                    = (IF HoldsAmount THEN 1 ELSE 0)
              /\ Len(discrepancies) <= 3
              /\ \A i \in 1..Len(discrepancies) :
                    discrepancies[i].kind \in {"UnsupportedOverconfidence",
                                               "UnsupportedSuperlative", "UnsupportedNumeric"}

\* no facts, two words of each lexicon and two amounts: one issue of each kind
C24_Witness ==
    /\ Returned("detect_misinformation_patterns")
    /\ api_hotels = <<>>
    /\ response_text = <<"d","e","f","i","n","i","t","e","l","y"," ","a","n","d"," ","c","e","r","t","a","i","n","l","y"," ","T","o","p"," ","R","a","t","e","d",","," ","m","o","s","t"," ","p","o","p","u","l","a","r"," ","$","1","5","0"," ","o","r"," ","$","2","0","0">>
    /\ Len(discrepancies) = 3

\* ---------------------------------------------------------------------------
\* the FactSet of a turn
\* ---------------------------------------------------------------------------
\* the record lists the fact source can give: the provider's priced properties
\* in the provider's order, and the mock hotels of a city
FactSourceLists ==
    LiveResults \cup {MockHotels(call.city) : call \in {c \in ToolCallPool : c.city # <<>>}}

\* the search_hotels results sent back to the generator so far
SearchesDone ==
    Cardinality({i \in 1..Len(messages) :
                    messages[i].role = "tool" /\ messages[i].tag = "search_hotels"})

\* C25: at every point of a turn, whatever tools were called and in whatever
\* order, the FactSet given to the checkers holds at most 5 records, and they
\* are the first records of one list of the fact source, in its order.
C25_FactSetCappedPrefix ==
    mode = "chat" =>
        /\ Len(TopHotels(full_api_data)) <= 5
        /\ \/ TopHotels(full_api_data) = <<>>
           \/ \E list \in FactSourceLists : IsPrefix(TopHotels(full_api_data), list)

\* after two searches, the second one answered with 6 properties: 5 are kept
C25_Witness ==
    /\ mode = "chat"
    /\ SearchesDone = 2
    /\ Len(TopHotels(full_api_data)) = 5
    /\ \E list \in LiveResults :
          Len(list) = 6 /\ IsPrefix(TopHotels(full_api_data), list)

\* the last search_hotels call of the turn got no answer from the provider: a
\* timeout, an HTTP error status or another exception
SearchFailed == provider.kind \in {"timeout", "http_error", "exception"}

ValidationReached == pc \in {"validate", "correction_call", "done"}

----------------------------------------------------------------------------
(* Two calls of chat on one engine, interleaved where a call waits: for the *)
(* generator and for search_hotels. Each call has its locals; the engine    *)
(* and the history list the caller passes are shared.                       *)

\* the responses the collaborators give to one call of chat: the tool calls of
\* the first generator response (none: it answers with `first`), what the
\* provider does at each search, the grounded response and the correction
ScriptPool ==
    {[tool_calls |-> <<>>, providers |-> <<>>,
      first |-> Output("json", <<Hotel(<<"F","a","k","e"," ","I","n","n">>, IntVal(150), FloatVal(450))>>, <<"o","k">>),
      second |-> NoOutput, correction |-> NoOutput],
     [tool_calls |-> <<[name |-> "search_hotels", city |-> Paris]>>,
      providers |-> <<Provider("hotels", <<Hotel(<<"G","r","a","n","d"," ","I","n","n">>, IntVal(150), FloatVal(450))>>)>>,
      first |-> NoOutput,
      second |-> Output("json", <<Hotel(<<"F","a","k","e"," ","I","n","n">>, IntVal(150), FloatVal(450))>>,
                        <<"D","e","f","i","n","i","t","e","l","y"," ","t","h","e"," ","b","e","s","t"," ","h","o","t","e","l"," ","a","t"," ","$","1","5","0">>),
      correction |-> Output("json", <<Hotel(<<"G","r","a","n","d"," ","I","n","n">>, IntVal(150), FloatVal(450))>>,
                            <<"I"," ","r","e","c","o","m","m","e","n","d"," ","G","r","a","n","d"," ","I","n","n"," ","h","o","t","e","l",","," ","g","r","e","a","t"," ","v","a","l","u","e">>)],
     [tool_calls |-> <<[name |-> "search_hotels", city |-> Paris],
                       [name |-> "other", city |-> <<>>]>>,
      providers |-> <<Provider("timeout", <<>>), NoProvider>>,
      first |-> NoOutput,
      second |-> Output("json", <<Hotel(<<"G","r","a","n","d"," ","I","n","n">>, IntVal(150), FloatVal(450))>>,
                        <<"I"," ","r","e","c","o","m","m","e","n","d"," ","G","r","a","n","d"," ","I","n","n"," ","h","o","t","e","l",","," ","g","r","e","a","t"," ","v","a","l","u","e">>),
      correction |-> Output("text", <<>>, <<"s","o","r","r","y">>)],
     [tool_calls |-> <<[name |-> "search_hotels", city |-> <<>>]>>,
      providers |-> <<Provider("key_missing", <<>>)>>,
      first |-> NoOutput, second |-> NoOutput, correction |-> NoOutput]}

\* line 30: the locals of a call that has not run yet; `given` is the history
\* argument as the caller passed it
StartLocals(script, given) ==
    [pc |-> "start", steps |-> 0, script |-> script, given |-> given,
     messages |-> <<>>, tool_calls |-> <<>>, full_api_data |-> EmptyDict,
     all_issues |-> <<>>, result |-> NoResult]

\* lines 35-198 with the user message appended to the caller's list
StartTurn_AppendsToHistory(l, h) ==
    [local |-> [l EXCEPT !.pc = "first_call", !.steps = @ + 1,
                         !.messages = InitialMessages(h)],
     history |-> Append(h, Msg("user", "user_input", <<>>))]

\* lines 35-198: history[-10:] and the list concatenation build new lists; the
\* caller's list is read, not written
StartTurn(l, h) ==
    [local |-> [l EXCEPT !.pc = "first_call", !.steps = @ + 1,
                         !.messages = InitialMessages(h)],
     history |-> h]

\* lines 228-241 and 375: the first response answers, or asks for tools
AfterFirstCall(l) ==
    IF l.script.tool_calls = <<>>
    THEN [l EXCEPT !.pc = "done", !.steps = @ + 1, !.result = Returns(l.script.first)]
    ELSE [l EXCEPT !.pc = "tool_loop", !.steps = @ + 1,
                   !.messages = Append(@, Msg("assistant", "tool_calls", <<>>)),
                   !.full_api_data = EmptyDict,
                   !.tool_calls = l.script.tool_calls]

\* lines 243-275: the next tool call and the merge of its result
AfterTool(l) ==
    LET next_pc(rest) == IF rest = <<>> THEN "second_call" ELSE "tool_loop"
        merge(r) ==
            IF r.raised
            THEN [l EXCEPT !.pc = "done", !.steps = @ + 1, !.result = Raises]
            ELSE [l EXCEPT !.pc = next_pc(Tail(l.tool_calls)), !.steps = @ + 1,
                           !.full_api_data = UpdateWithHotels(@, r.hotels),
                           !.messages = Append(@, Msg("tool", "search_hotels",
                                                      FirstOf(r.hotels, TopHotelsLimit))),
                           !.tool_calls = Tail(@)]
        run(call, k) ==
            IF call.name = "search_hotels"
            THEN merge(search_hotels(call.city, l.script.providers[k]))
            ELSE [l EXCEPT !.pc = next_pc(Tail(l.tool_calls)), !.steps = @ + 1,
                           !.full_api_data = UpdateWithError(@),
                           !.messages = Append(@, Msg("tool", call.name, <<>>)),
                           !.tool_calls = Tail(@)]
    IN  run(Head(l.tool_calls), Len(l.script.tool_calls) - Len(l.tool_calls) + 1)

\* lines 278-343 and 370-373: the grounded response is checked
AfterSecondCall(l) ==
    LET decide(out, c, issues) ==
            IF NeedsCorrection(issues, c.summary)
            THEN [l EXCEPT !.pc = "correction_call", !.steps = @ + 1,
                           !.all_issues = issues,
                           !.messages = Append(@, Msg("system", "correction",
                                                      FirstOf(issues, DirectiveLimit)))]
            ELSE [l EXCEPT !.pc = "done", !.steps = @ + 1, !.all_issues = issues,
                           !.result = Returns(out)]
        merge(out, c, f) == decide(out, c, WithFusionIssues(c.all_issues, f))
        check(out, api) ==
            IF out.kind # "json"
            THEN [l EXCEPT !.pc = "done", !.steps = @ + 1, !.result = PassThrough(out)]
            ELSE merge(out, comprehensive_check(api, out.top_hotels, out.response_to_user),
                       get_fusion_quality_score(api, out.top_hotels, out.response_to_user))
    IN  check(l.script.second, TopHotels(l.full_api_data))

\* lines 345-368: the correction response is returned
AfterCorrection(l) ==
    LET finish(out, api) ==
            IF out.kind = "json"
            THEN CorrectionResult(l.script.second, out,
                     Recheck(api, out.top_hotels, out.response_to_user).issues)
            ELSE PassThrough(out)
    IN  [l EXCEPT !.pc = "done", !.steps = @ + 1,
                  !.result = finish(l.script.correction, TopHotels(l.full_api_data))]

\* a call of chat runs from one point where it waits to the next; h is the
\* caller's list
TurnStep(l, h) ==
    CASE l.pc = "start" -> StartTurn(l, h)
      [] l.pc = "first_call" -> [local |-> AfterFirstCall(l), history |-> h]
      [] l.pc = "tool_loop" -> [local |-> AfterTool(l), history |-> h]
      [] l.pc = "second_call" -> [local |-> AfterSecondCall(l), history |-> h]
      [] l.pc = "correction_call" -> [local |-> AfterCorrection(l), history |-> h]
      [] OTHER -> [local |-> l, history |-> h]

\* the locals of a call after n steps with no other call running
RECURSIVE RunAlone(_, _, _)
RunAlone(l, h, n) ==
    IF n = 0 \/ l.pc = "done" THEN l
    ELSE LET go(s) == RunAlone(s.local, s.history, n - 1)
         IN  go(TurnStep(l, h))

TwoTurns == {1, 2}

InitTurns ==
    /\ mode = "two_turns"
    /\ pc = "serving"
    /\ api_hotels = <<>>
    /\ llm_hotels = <<>>
    /\ response_text = <<>>
    /\ discrepancies = <<>>
    /\ summary = NoSummary
    /\ fusion = NoFusion
    /\ fusion_before = NoFusion
    /\ messages = <<>>
    /\ tool_calls = <<>>
    /\ full_api_data = EmptyDict
    /\ final_json_str = NoOutput
    /\ corrected_json = NoOutput
    /\ provider = NoProvider
    /\ environ = Environ(NoneVal, StrVal(<<"s","k","-","1">>))
    /\ client = LLMEngine_init(environ).api_key
    /\ checker_runs = <<>>
    /\ caller_history \in Histories
    /\ \E scripts \in [TwoTurns -> ScriptPool] :
          turns = [t \in TwoTurns |-> StartLocals(scripts[t], caller_history)]
    /\ all_issues = <<>>
    /\ generator_calls = <<>>
    /\ result = NoResult

\* one of the calls runs to its next wait
ChatStep ==
    /\ mode = "two_turns"
    /\ \E t \in TwoTurns :
          /\ turns[t].pc # "done"
          /\ LET write(s) ==
                     /\ turns' = [turns EXCEPT ![t] = s.local]
                     /\ caller_history' = s.history
             IN  write(TurnStep(turns[t], caller_history))
    /\ UNCHANGED <<mode, pc, args, checker, messages, tool_calls, full_api_data,
                   final_json_str, all_issues, corrected_json, provider, environ, client,
                   checker_runs, generator_calls, result>>

NextTurns == ChatStep

SpecTurns == InitTurns /\ [][NextTurns]_vars

\* C27: with two calls of chat interleaved on one engine, the locals of each
\* call (message list, FactSet, issue list, result) are at every moment what
\* they are after the same number of steps of that call run alone on the same
\* collaborator responses, so each call returns what it returns alone; and the
\* history list the caller passed is never changed.
C27_TurnsIsolated ==
    mode = "two_turns" =>
        \A t \in TwoTurns :
            /\ caller_history = turns[t].given
            /\ turns[t] = RunAlone(StartLocals(turns[t].script, turns[t].given),
                                   turns[t].given, turns[t].steps)

\* both calls are waiting at the same time, one for its correction and one for
\* a tool, with different FactSets
C27_Witness ==
    /\ mode = "two_turns"
    /\ turns[1].pc = "correction_call"
    /\ turns[2].pc = "tool_loop"
    /\ turns[1].all_issues # <<>>
    /\ TopHotels(turns[1].full_api_data) # TopHotels(turns[2].full_api_data)
    /\ Len(caller_history) > HistoryLimit

\* C28: the grounded call leaves the message list as it is; the directive is
\* the one message added before the correction call, at the end, and it lists
\* the first min(5, n) of the n merged issues in their order, the first of them
\* an issue of verify_grounding; the correction call is made with that list and
\* adds nothing to it.
C28_DirectiveAppended ==
    [][mode = "chat" =>
          /\ (pc = "tool_loop" /\ pc' = "validate") => messages' = messages
          /\ (pc = "validate" /\ pc' = "correction_call") =>
                /\ messages' = Append(messages, messages'[Len(messages')])
                /\ messages'[Len(messages')].role = "system"
                /\ messages'[Len(messages')].tag = "correction"
                /\ Len(messages'[Len(messages')].payload)
                      = (IF Len(all_issues') < 5 THEN Len(all_issues') ELSE 5)
                /\ IsPrefix(messages'[Len(messages')].payload, all_issues')
                /\ messages'[Len(messages')].payload[1]
                      = verify_grounding(TopHotels(full_api_data),
                                         final_json_str.top_hotels)[1]
          /\ pc = "correction_call" => messages' = messages]_vars

\* more than 5 merged issues: the directive at the end of the list holds 5
C28_Witness ==
    /\ mode = "chat" /\ pc = "correction_call"
    /\ Len(all_issues) > 5
    /\ messages[Len(messages)].tag = "correction"
    /\ Len(messages[Len(messages)].payload) = 5

\* the first response asked for no tool: no assistant message with tool calls
\* was put on the list
NoToolRequested ==
    \A i \in 1..Len(messages) : messages[i].role # "assistant"

\* C29: when the first generator response asks for no tool, the turn returns
\* that response as it is after this one generator call: no search_hotels call,
\* no checker, no fusion scorer and no correction, whatever its claims.
C29_DirectAnswerUnchecked ==
    (mode = "chat" /\ pc = "done" /\ NoToolRequested) =>
        /\ result.kind = "returned"
        /\ result.value \in Outputs
        /\ generator_calls = <<"tool_decision">>
        /\ provider = NoProvider
        /\ full_api_data = EmptyDict
        /\ checker_runs = <<>>
        /\ summary = NoSummary /\ fusion = NoFusion /\ all_issues = <<>>
        /\ final_json_str = NoOutput /\ corrected_json = NoOutput

\* a direct answer that claims a hotel and a price is returned
C29_Witness ==
    /\ mode = "chat" /\ pc = "done" /\ NoToolRequested
    /\ result.kind = "returned"
    /\ result.value.top_hotels # <<>>
    /\ result.value.top_hotels[1].name = <<"F","a","k","e"," ","I","n","n">>

\* the positions of the search_hotels results among the messages
SearchOutputs ==
    {i \in 1..Len(messages) : messages[i].role = "tool" /\ messages[i].tag = "search_hotels"}

\* the records of the last search_hotels result sent to the generator
LastSearchOutput ==
    messages[CHOOSE i \in SearchOutputs : \A j \in SearchOutputs : j <= i].payload

\* the records of the first search_hotels result sent to the generator
FirstSearchOutput ==
    messages[CHOOSE i \in SearchOutputs : \A j \in SearchOutputs : i <= j].payload

\* C30: once a search_hotels call of the turn was processed, the FactSet is
\* exactly the capped result of the last one processed, each result having been
\* sent to the generator as a tool output, and the response is judged against
\* these records only, also when it repeats a record of an earlier result.
C30_LastSearchIsFactSet ==
    (mode = "chat" /\ SearchOutputs # {}) =>
        /\ TopHotels(full_api_data) = LastSearchOutput
        /\ Len(LastSearchOutput) <= TopHotelsLimit
        /\ (summary # NoSummary /\ final_json_str.kind = "json") =>
              summary = comprehensive_check(LastSearchOutput, final_json_str.top_hotels,
                                            final_json_str.response_to_user).summary

\* the first search returned Grand Inn, the last one did not; the response
\* repeats the Grand Inn record and the claim is reported as hallucinated
C30_Witness ==
    /\ mode = "chat" /\ Cardinality(SearchOutputs) = 2
    /\ FirstSearchOutput = <<Hotel(<<"G","r","a","n","d"," ","I","n","n">>, IntVal(150), FloatVal(450))>>
    /\ \A i \in 1..Len(LastSearchOutput) : LastSearchOutput[i].name # <<"G","r","a","n","d"," ","I","n","n">>
    /\ final_json_str.kind = "json"
    /\ final_json_str.top_hotels = FirstSearchOutput
    /\ summary # NoSummary
    /\ \E k \in 1..Len(all_issues) : all_issues[k].kind = "HallucinatedEntity"

====
